---- MODULE Spec2Model ----
(***************************************************************************)
(* Model of the Coolify log viewer (class CoolifyLogs, the variant with    *)
(* auto-discovery):  the session-aware HTTP client `request`, the login    *)
(* handshake and the command workflow that drives them.                    *)
(*                                                                         *)
(* Strings are TLA+ strings; the string functions the code uses            *)
(* (startsWith, includes, split, join, regular-expression first match)     *)
(* are computed on their characters.  The server is the environment: it    *)
(* answers the request in flight with any response of the set Responses,   *)
(* or the transport fails.                                                 *)
(***************************************************************************)
EXTENDS Integers, Sequences, FiniteSets, TLC

(***************************************************************************)
(* Bounds of the model.                                                    *)
(***************************************************************************)
\* longest chain of consecutive redirects the server answers to one call
MaxRedirects == 2

(***************************************************************************)
(* JavaScript values.                                                      *)
(***************************************************************************)
\* null / undefined: a header, body, token or identifier that is not set
NULL == "<null>"

\* s.startsWith(p)
StartsWith(s, p) == Len(s) >= Len(p) /\ SubSeq(s, 1, Len(p)) = p

\* s.endsWith(p)
EndsWith(s, p) == Len(s) >= Len(p) /\ SubSeq(s, Len(s) - Len(p) + 1, Len(s)) = p

\* p occurs in s at position i
HasAt(s, p, i) == i >= 1 /\ i + Len(p) - 1 <= Len(s) /\ SubSeq(s, i, i + Len(p) - 1) = p

\* s.indexOf(p, i), 1-based; 0 when p does not occur at or after position i
IndexFrom(s, p, i) ==
    LET hits == {k \in i..Len(s) : HasAt(s, p, k)}
    IN  IF hits = {} THEN 0 ELSE CHOOSE k \in hits : \A m \in hits : k <= m

\* s.includes(p)
Includes(s, p) == IndexFrom(s, p, 1) > 0

\* s.split(sep)[0]
SplitHead(s, sep) ==
    LET k == IndexFrom(s, sep, 1)
    IN  IF k = 0 THEN s ELSE SubSeq(s, 1, k - 1)

\* s.split(sep), as a sequence of strings
RECURSIVE Split(_, _)
Split(s, sep) ==
    LET k == IndexFrom(s, sep, 1)
    IN  IF k = 0 THEN <<s>>
        ELSE <<SubSeq(s, 1, k - 1)>> \o Split(SubSeq(s, k + Len(sep), Len(s)), sep)

\* parts.join(sep)
RECURSIVE Join(_, _)
Join(parts, sep) ==
    IF parts = <<>> THEN ""
    ELSE IF Len(parts) = 1 THEN parts[1]
    ELSE parts[1] \o sep \o Join(Tail(parts), sep)

\* parts.map(c => c.split(';')[0])
RECURSIVE MapSplitHead(_)
MapSplitHead(parts) ==
    IF parts = <<>> THEN <<>>
    ELSE <<SplitHead(parts[1], ";")>> \o MapSplitHead(Tail(parts))

(***************************************************************************)
(* new URLSearchParams({email, password}).toString(): the form encoding    *)
(* of the characters the credentials of the model are made of.             *)
(***************************************************************************)
RECURSIVE FormEncode(_)
FormEncode(s) ==
    IF s = "" THEN ""
    ELSE LET c == SubSeq(s, 1, 1)
             e == IF c = "@" THEN "%40"
                  ELSE IF c = " " THEN "+"
                  ELSE IF c = "&" THEN "%26"
                  ELSE IF c = "=" THEN "%3D"
                  ELSE c
         IN  e \o FormEncode(SubSeq(s, 2, Len(s)))

URLSearchParams(email, password) ==
    "email=" \o FormEncode(email) \o "&password=" \o FormEncode(password)

(***************************************************************************)
(* String.prototype.replace with a global pattern, and the case folding    *)
(* of the i flag, on the ASCII letters.                                    *)
(***************************************************************************)
\* s.replace(/from/g, to) for a literal pattern: every occurrence, left to
\* right, the replacement itself is not scanned again
RECURSIVE ReplaceAll(_, _, _)
ReplaceAll(s, from, to) ==
    LET k == IndexFrom(s, from, 1)
    IN  IF k = 0 THEN s
        ELSE SubSeq(s, 1, k - 1) \o to
             \o ReplaceAll(SubSeq(s, k + Len(from), Len(s)), from, to)

UpperChars == "ABCDEFGHIJKLMNOPQRSTUVWXYZ"
LowerChars == "abcdefghijklmnopqrstuvwxyz"

\* the text with its ASCII capitals in lower case
RECURSIVE ToLower(_)
ToLower(s) ==
    IF Len(s) > 1
    THEN ToLower(SubSeq(s, 1, Len(s) \div 2)) \o ToLower(SubSeq(s, Len(s) \div 2 + 1, Len(s)))
    ELSE LET k == IndexFrom(UpperChars, s, 1)
         IN  IF s = "" \/ k = 0 THEN s ELSE SubSeq(LowerChars, k, k)

\* the character at position i, "" beyond the end
Ch(s, i) == IF i >= 1 /\ i <= Len(s) THEN SubSeq(s, i, i) ELSE ""

(***************************************************************************)
(* JSON.parse(text): a parser of JSON values.  A value is a record tagged  *)
(* with its JavaScript type: string (s), number (s: its literal), boolean  *)
(* (b), null, object (keys and vals in source order), array (vals), and    *)
(* undefined for a property that is not there.  The string escapes \b and  *)
(* \uXXXX, which no payload of the model uses, are not decoded: the        *)
(* parser rejects them.                                                    *)
(***************************************************************************)
Digits == {"0", "1", "2", "3", "4", "5", "6", "7", "8", "9"}

JsonWhitespace == {" ", "\t", "\n", "\r"}

Undefined == [t |-> "undefined"]

JsonNull == [t |-> "null"]

\* a SyntaxError of JSON.parse
ParseFailure == [ok |-> FALSE, val |-> Undefined, next |-> 0]

RECURSIVE SkipWs(_, _)
SkipWs(s, i) == IF Ch(s, i) \in JsonWhitespace THEN SkipWs(s, i + 1) ELSE i

RECURSIVE DigitRun(_, _)
DigitRun(s, i) == IF Ch(s, i) \in Digits THEN 1 + DigitRun(s, i + 1) ELSE 0

\* the characters of a string literal from position i to its closing quote:
\* the text up to the next quote or backslash is taken as it is, an escape is
\* decoded
RECURSIVE ParseChars(_, _, _)
ParseChars(s, i, acc) ==
    LET q     == IndexFrom(s, "\"", i)
        b     == IndexFrom(s, "\\", i)
        stop  == IF b > 0 /\ b < q THEN b ELSE q
        plain == SubSeq(s, i, stop - 1)
        e     == Ch(s, b + 1)
    IN  IF q = 0 \/ \E c \in {"\n", "\t", "\r"} : Includes(plain, c) THEN ParseFailure
        ELSE IF stop = q
        THEN [ok |-> TRUE, val |-> [t |-> "string", s |-> acc \o plain], next |-> q + 1]
        ELSE IF e \in {"\"", "\\", "/"} THEN ParseChars(s, b + 2, acc \o plain \o e)
        ELSE IF e = "n" THEN ParseChars(s, b + 2, acc \o plain \o "\n")
        ELSE IF e = "t" THEN ParseChars(s, b + 2, acc \o plain \o "\t")
        ELSE IF e = "r" THEN ParseChars(s, b + 2, acc \o plain \o "\r")
        ELSE IF e = "f" THEN ParseChars(s, b + 2, acc \o plain \o "\f")
        ELSE ParseFailure

\* the position behind the integer part that starts at a, 0 when there is none
NumberInt(s, a, n) == IF n = 1 \/ (n > 1 /\ Ch(s, a) # "0") THEN a + n ELSE 0

\* the position behind the optional fraction that starts at b
NumberFrac(s, b) ==
    IF b = 0 \/ Ch(s, b) # "." THEN b
    ELSE IF DigitRun(s, b + 1) > 0 THEN b + 1 + DigitRun(s, b + 1) ELSE 0

\* the position behind the digits of an exponent whose digits start at d
NumberExpDigits(s, d) == IF DigitRun(s, d) > 0 THEN d + DigitRun(s, d) ELSE 0

\* the position behind the optional exponent that starts at c
NumberExp(s, c) ==
    IF c = 0 \/ Ch(s, c) \notin {"e", "E"} THEN c
    ELSE NumberExpDigits(s, IF Ch(s, c + 1) \in {"+", "-"} THEN c + 2 ELSE c + 1)

\* the number whose literal runs from i to end - 1
NumberLiteral(s, i, end) ==
    IF end = 0 THEN ParseFailure
    ELSE [ok |-> TRUE, val |-> [t |-> "number", s |-> SubSeq(s, i, end - 1)], next |-> end]

\* the digits of a number from position a, behind the optional sign
NumberDigits(s, i, a) ==
    NumberLiteral(s, i, NumberExp(s, NumberFrac(s, NumberInt(s, a, DigitRun(s, a)))))

\* a number literal at position i: -? int frac? exp?
ParseNumber(s, i) == NumberDigits(s, i, IF Ch(s, i) = "-" THEN i + 1 ELSE i)

RECURSIVE ParseValue(_, _)
RECURSIVE ParseMembers(_, _, _, _)
RECURSIVE ParseElements(_, _, _)

\* the object is closed, or goes on behind a comma; e is the position behind
\* a member and its white space
MembersEnd(s, e, keys, vals) ==
    IF Ch(s, e) = "," THEN ParseMembers(s, e + 1, keys, vals)
    ELSE IF Ch(s, e) = "}"
    THEN [ok |-> TRUE, val |-> [t |-> "object", keys |-> keys, vals |-> vals], next |-> e + 1]
    ELSE ParseFailure

\* a member is complete: v is the parse of its value
MemberDone(s, v, key, keys, vals) ==
    IF ~v.ok THEN ParseFailure
    ELSE MembersEnd(s, SkipWs(s, v.next), Append(keys, key), Append(vals, v.val))

\* the colon and the value of a member; c is the position behind the name and
\* its white space
MemberValue(s, c, key, keys, vals) ==
    IF Ch(s, c) # ":" THEN ParseFailure
    ELSE MemberDone(s, ParseValue(s, c + 1), key, keys, vals)

\* a member whose name has been parsed to k
MemberNamed(s, k, keys, vals) ==
    IF ~k.ok THEN ParseFailure
    ELSE MemberValue(s, SkipWs(s, k.next), k.val.s, keys, vals)

\* a member at position j
Member(s, j, keys, vals) ==
    IF Ch(s, j) # "\"" THEN ParseFailure
    ELSE MemberNamed(s, ParseChars(s, j + 1, ""), keys, vals)

\* the members of an object from position i, after '{' or ','
ParseMembers(s, i, keys, vals) == Member(s, SkipWs(s, i), keys, vals)

\* the array is closed, or goes on behind a comma
ElementsEnd(s, e, vals) ==
    IF Ch(s, e) = "," THEN ParseElements(s, e + 1, vals)
    ELSE IF Ch(s, e) = "]"
    THEN [ok |-> TRUE, val |-> [t |-> "array", vals |-> vals], next |-> e + 1]
    ELSE ParseFailure

\* an element is complete: v is its parse
ElementDone(s, v, vals) ==
    IF ~v.ok THEN ParseFailure
    ELSE ElementsEnd(s, SkipWs(s, v.next), Append(vals, v.val))

\* the elements of an array from position i, after '[' or ','
ParseElements(s, i, vals) == ElementDone(s, ParseValue(s, i), vals)

\* an object whose '{' is followed, behind white space, by position j
ObjectFrom(s, j) ==
    IF Ch(s, j) = "}"
    THEN [ok |-> TRUE, val |-> [t |-> "object", keys |-> <<>>, vals |-> <<>>], next |-> j + 1]
    ELSE ParseMembers(s, j, <<>>, <<>>)

\* an array whose '[' is followed, behind white space, by position j
ArrayFrom(s, j) ==
    IF Ch(s, j) = "]"
    THEN [ok |-> TRUE, val |-> [t |-> "array", vals |-> <<>>], next |-> j + 1]
    ELSE ParseElements(s, j, <<>>)

\* the value that starts at position j with character c
ValueAt(s, j, c) ==
    IF c = "{" THEN ObjectFrom(s, SkipWs(s, j + 1))
    ELSE IF c = "[" THEN ArrayFrom(s, SkipWs(s, j + 1))
    ELSE IF c = "\"" THEN ParseChars(s, j + 1, "")
    ELSE IF c = "t" /\ HasAt(s, "true", j)
    THEN [ok |-> TRUE, val |-> [t |-> "boolean", b |-> TRUE], next |-> j + 4]
    ELSE IF c = "f" /\ HasAt(s, "false", j)
    THEN [ok |-> TRUE, val |-> [t |-> "boolean", b |-> FALSE], next |-> j + 5]
    ELSE IF c = "n" /\ HasAt(s, "null", j) THEN [ok |-> TRUE, val |-> JsonNull, next |-> j + 4]
    ELSE IF c = "-" \/ c \in Digits THEN ParseNumber(s, j)
    ELSE ParseFailure

\* the value behind the white space at position j
ValueFrom(s, j) == ValueAt(s, j, Ch(s, j))

\* the value at position i, after optional white space
ParseValue(s, i) == ValueFrom(s, SkipWs(s, i))

\* the parse r is the whole text
WholeText(text, r) ==
    IF r.ok /\ SkipWs(text, r.next) = Len(text) + 1 THEN r ELSE ParseFailure

\* JSON.parse(text): the whole text is one value
JsonParse(text) == WholeText(text, ParseValue(text, 1))

\* v.key: the value of the last member of that name, undefined when v is no
\* object or has no such member
Prop(v, key) ==
    LET at == IF v.t = "object" THEN {i \in 1..Len(v.keys) : v.keys[i] = key} ELSE {}
    IN  IF at = {} THEN Undefined
        ELSE v.vals[CHOOSE i \in at : \A j \in at : i >= j]

\* a number literal that denotes zero
IsZero(literal) ==
    LET m == SplitHead(SplitHead(literal, "e"), "E")
    IN  \A i \in 1..Len(m) : SubSeq(m, i, i) \in {"0", ".", "-"}

\* the truth value of v in a condition
Truthy(v) ==
    IF v.t = "string" THEN v.s # ""
    ELSE IF v.t = "number" THEN ~IsZero(v.s)
    ELSE IF v.t = "boolean" THEN v.b
    ELSE v.t \in {"object", "array"}

\* String(v); a number gives its literal, which is its decimal form for the
\* integers of the model
RECURSIVE ToStr(_)
RECURSIVE JoinValues(_)
JoinValues(vals) ==
    IF vals = <<>> THEN ""
    ELSE (IF vals[1].t \in {"null", "undefined"} THEN "" ELSE ToStr(vals[1]))
         \o (IF Len(vals) > 1 THEN "," \o JoinValues(Tail(vals)) ELSE "")

ToStr(v) ==
    IF v.t = "string" THEN v.s
    ELSE IF v.t = "number" THEN v.s
    ELSE IF v.t = "boolean" THEN (IF v.b THEN "true" ELSE "false")
    ELSE IF v.t = "object" THEN "[object Object]"
    ELSE IF v.t = "array" THEN JoinValues(v.vals)
    ELSE v.t

(***************************************************************************)
(* JSON.parse(data) in request: the parsed value when the whole payload is *)
(* JSON, the raw text otherwise.  A body is [type, text, truthy,           *)
(* elements]: the JavaScript type of the value, String(value), its truth   *)
(* value and, of an array, the strings among its elements.                 *)
(***************************************************************************)
BodyOf(data, r) ==
    IF r.ok
    THEN [type |-> r.val.t, text |-> ToStr(r.val), truthy |-> Truthy(r.val),
          elements |-> IF r.val.t = "array"
                       THEN {r.val.vals[i].s : i \in {j \in 1..Len(r.val.vals) :
                                                         r.val.vals[j].t = "string"}}
                       ELSE {}]
    ELSE [type |-> "string", text |-> data, truthy |-> data # "", elements |-> {}]

ParseBody(data) == BodyOf(data, JsonParse(data))

\* body.match is a function: the body is a string
CanMatch(body) == body.type = "string"

\* body.includes is a function: the body is a string or an array
CanInclude(body) == body.type \in {"string", "array"}

\* body.includes(needle), of a string or of an array
BodyIncludes(body, needle) ==
    IF body.type = "string" THEN Includes(body.text, needle) ELSE needle \in body.elements

(***************************************************************************)
(* The session (fields of CoolifyLogs), the process and the network.       *)
(***************************************************************************)
VARIABLES
    baseURL,        \* this.baseURL
    cookies,        \* this.cookies: the stored Cookie header, '' when none
    csrfToken,      \* this.csrfToken, NULL when none
    projectId,      \* this.projectId, NULL when not resolved
    environmentId,  \* this.environmentId
    applicationId,  \* this.applicationId
    argv,           \* the command line and the environment of the process
    pc,             \* the await the command is suspended at
    exitCode,       \* NULL while running, then the exit code of the process
    frame,          \* locals of the suspended functions: the error the command
                    \* reports, the latest deployment, the environments left to
                    \* list, what discoverResources and getDeploymentLogs returned
                    \* and, as history, the strategy that produced the logs
    inflight,       \* the requests written to the network and not yet answered
    call,           \* the pending request() call: its options and redirect depth
    result,         \* the settled promise of the pending request() call
    origCall,       \* history: the pending call as first issued, request and options
    lastRes,        \* history: the outcome of the exchange that ended last, its
                    \* request and the response or the transport error
    jar,            \* history: per cookie name, the value the server last supplied
    loginThrew      \* history: login() has thrown

session == <<baseURL, cookies, csrfToken, projectId, environmentId, applicationId>>
ids     == <<projectId, environmentId, applicationId>>
net     == <<inflight, call, result, origCall, lastRes, jar>>
vars    == <<baseURL, cookies, csrfToken, projectId, environmentId, applicationId,
             argv, pc, exitCode, frame, inflight, call, result, origCall, lastRes,
             jar, loginThrew>>

(***************************************************************************)
(* constructor(baseURL)                                                    *)
(***************************************************************************)
DefaultBaseURL == "https://coolify.acc.l-inc.co.za"

\* the first non-empty of the argument and the environment variables
FirstTruthy(cands) ==
    LET set == {i \in 1..Len(cands) : cands[i] # NULL /\ cands[i] # ""}
    IN  IF set = {} THEN DefaultBaseURL
        ELSE cands[CHOOSE i \in set : \A j \in set : i <= j]

\* 'https://' is prepended to a URL without scheme, one trailing slash is removed
NormalizeBaseURL(raw) ==
    LET withScheme == IF ~StartsWith(raw, "http://") /\ ~StartsWith(raw, "https://")
                      THEN "https://" \o raw ELSE raw
    IN  IF EndsWith(withScheme, "/")
        THEN SubSeq(withScheme, 1, Len(withScheme) - 1) ELSE withScheme

Constructor(arg, env) ==
    NormalizeBaseURL(FirstTruthy(<<arg, env.COOLIFY_URL, env.COOLIFY_BASE_URL, env.COOLIFY_HOST>>))

(***************************************************************************)
(* request(url, options): building and sending the request.                *)
(***************************************************************************)
NoHeaders == [h \in {} |-> ""]

\* options = {}: a GET without headers and body
NoOptions == [method |-> NULL, headers |-> NoHeaders, body |-> NULL]

BaselineHeaders ==
    ("User-Agent" :> "Mozilla/5.0 (X11; Linux x86_64) AppleWebKit/537.36 (KHTML, like Gecko) Chrome/131.0.0.0 Safari/537.36")
    @@ ("Accept" :> "*/*")
    @@ ("Accept-Language" :> "en-US,en;q=0.9")
    @@ ("Connection" :> "keep-alive")
    @@ ("Accept-Encoding" :> "gzip, deflate, br")
    @@ ("Cache-Control" :> "no-cache")

\* if (this.cookies) ...; if (this.csrfToken) ...
SessionHeaders(hdrs, cookieStr, token) ==
    LET withCookie == IF cookieStr # "" THEN ("Cookie" :> cookieStr) @@ hdrs ELSE hdrs
    IN  IF token # NULL THEN ("X-CSRF-Token" :> token) @@ withCookie ELSE withCookie

\* options.body is set and not empty
HasBody(options) == options.body # NULL /\ options.body # ""

\* BuildRequest with the CSRF header attached to state-changing methods only
BuildRequestCsrfOnPostOnly(url, options, cookieStr, token) ==
    LET method  == IF options.method # NULL THEN options.method ELSE "GET"
        overlay == options.headers @@ BaselineHeaders
        sess    == SessionHeaders(overlay, cookieStr, IF method = "GET" THEN NULL ELSE token)
        hdrs    == IF HasBody(options)
                   THEN ("Content-Length" :> ToString(Len(options.body))) @@ sess ELSE sess
    IN  [url |-> url, method |-> method, headers |-> hdrs,
         body |-> IF HasBody(options) THEN options.body ELSE NULL]

\* BuildRequest with the session's headers kept to URLs under the base URL
BuildRequestSameOrigin(url, options, cookieStr, token) ==
    LET method  == IF options.method # NULL THEN options.method ELSE "GET"
        overlay == options.headers @@ BaselineHeaders
        sess    == IF StartsWith(url, baseURL \o "/")
                   THEN SessionHeaders(overlay, cookieStr, token) ELSE overlay
        hdrs    == IF HasBody(options)
                   THEN ("Content-Length" :> ToString(Len(options.body))) @@ sess ELSE sess
    IN  [url |-> url, method |-> method, headers |-> hdrs,
         body |-> IF HasBody(options) THEN options.body ELSE NULL]

\* the request written to the network for request(url, options): the baseline
\* headers overlaid with the caller's, then the session's Cookie and CSRF
\* headers, then Content-Length when there is a body
BuildRequest(url, options, cookieStr, token) ==
    LET method  == IF options.method # NULL THEN options.method ELSE "GET"
        overlay == options.headers @@ BaselineHeaders
        sess    == SessionHeaders(overlay, cookieStr, token)
        hdrs    == IF HasBody(options)
                   THEN ("Content-Length" :> ToString(Len(options.body))) @@ sess ELSE sess
    IN  [url |-> url, method |-> method, headers |-> hdrs,
         body |-> IF HasBody(options) THEN options.body ELSE NULL]

NoResult == [kind |-> "pending"]
NoCall   == [options |-> NoOptions, depth |-> 0]
NoReq    == [url |-> NULL, method |-> NULL, headers |-> NoHeaders, body |-> NULL]
NoRes    == [status |-> 0, setCookie |-> <<>>, location |-> NULL, data |-> "",
             req |-> NoReq, error |-> NULL]
NoJar    == [n \in {} |-> ""]

\* a function calls request(url, options) and awaits it; token is this.csrfToken
\* at the call
Request(url, options, token) ==
    LET rq == BuildRequest(url, options, cookies, token)
    IN  /\ inflight' = inflight \cup {rq}
        /\ call' = [options |-> options, depth |-> 0]
        /\ origCall' = [req |-> rq, options |-> options]
        /\ result' = NoResult
        /\ UNCHANGED <<lastRes, jar, cookies>>

(***************************************************************************)
(* The server.  A response is [status, setCookie, location, data]:         *)
(* setCookie is the list of Set-Cookie headers (<<>> when there is none),  *)
(* location the Location header (NULL when absent), data the payload.      *)
(***************************************************************************)
PageLogin  == "<head><meta name=\"csrf-token\" content=\"abc123\"></head><form>Login</form>"
Page404    == "<html><h1>404 Not Found</h1></html>"
PageFailed == "<html><p>These credentials do not match our records.</p></html>"
PageJson   == "{\"message\":\"Server Error\"}"
PageDash   == "<a href=\"/project/p1\">one</a><a href=\"/project/p2\">two</a>"
PageApp    ==
    "<a href=\"/project/p1/environment/e1/application/a1/deployment/d0000000000000000000000a\">"
    \o "<span>Success</span></a><a href=\"/project/p2/environment/e2\">two</a>"
    \o "<pre>Build OK</pre>"
PageEnvs   ==
    "<a href=\"/project/p2/environment/e1\">empty</a>"
    \o "<a href=\"/project/p2/environment/e2/application/a2\">app</a>"

Bodies == {PageLogin, Page404, PageFailed, PageJson, PageDash, PageApp, PageEnvs}

SetCookies ==
    { <<>>,
      <<"sid=1; Path=/; HttpOnly">>,
      <<"xsrf=9; Path=/", "sid=2; Path=/; HttpOnly">> }

FinalResponses ==
    [status : {200}, setCookie : SetCookies, location : {NULL}, data : Bodies]
    \cup [status : {500}, setCookie : {<<>>}, location : {NULL},
          data : {Page404, PageJson, PageFailed}]
    \cup [status : {302}, setCookie : SetCookies, location : {NULL}, data : {""}]
    \cup [status : {200}, setCookie : {<<>>}, location : {"/foo"}, data : {PageLogin}]

RedirectResponses ==
    [status : {302}, setCookie : SetCookies,
     location : {"/foo", "https://sso.test/in"}, data : {""}]

Responses == FinalResponses \cup RedirectResponses

TransportErrors == {"ENOTFOUND", "ECONNREFUSED"}

(***************************************************************************)
(* request(url, options): the response callback.                           *)
(***************************************************************************)
\* StoreCookies with the cookies of a redirect response left for later
StoreCookiesAfterRedirect(cur, res) ==
    IF res.status >= 300 /\ res.status < 400 /\ res.location # NULL THEN cur
    ELSE IF res.setCookie # <<>> THEN Join(MapSplitHead(res.setCookie), "; ")
    ELSE cur

\* StoreCookies with the first Set-Cookie header alone
StoreCookiesFirstHeader(cur, res) ==
    IF res.setCookie # <<>> THEN SplitHead(res.setCookie[1], ";") ELSE cur

\* StoreCookies with the pairs of res appended to the stored ones
StoreCookiesAppended(cur, res) ==
    IF res.setCookie = <<>> THEN cur
    ELSE IF cur = "" THEN Join(MapSplitHead(res.setCookie), "; ")
    ELSE cur \o "; " \o Join(MapSplitHead(res.setCookie), "; ")

\* this.cookies after the callback has seen the Set-Cookie headers of res
StoreCookies(cur, res) ==
    IF res.setCookie # <<>> THEN Join(MapSplitHead(res.setCookie), "; ") ELSE cur

\* res.statusCode >= 300 && res.statusCode < 400 && res.headers.location
IsRedirect(res) ==
    res.status >= 300 /\ res.status < 400 /\ res.location # NULL /\ res.location # ""

\* the directory of a URL: the URL up to its last '/'
RECURSIVE DirOf(_)
DirOf(url) ==
    IF url = "" \/ EndsWith(url, "/") THEN url ELSE DirOf(SubSeq(url, 1, Len(url) - 1))

\* RedirectUrl with a relative Location resolved against the redirecting URL
RedirectUrlAgainstRequest(rq, res) ==
    IF StartsWith(res.location, "http") THEN res.location
    ELSE DirOf(rq.url) \o SubSeq(res.location, 2, Len(res.location))

\* the target of the follow-up request; rq is the redirected request
RedirectUrl(rq, res) ==
    IF StartsWith(res.location, "http") THEN res.location
    ELSE baseURL \o res.location

\* RedirectOptions as a browser follows a 302: a GET without the body
RedirectOptionsAsGet(options) ==
    [method |-> "GET", headers |-> options.headers, body |-> NULL]

\* the options of the follow-up request: this.request(redirectUrl, options)
RedirectOptions(options) == options

\* Settle that rejects the statuses of 400 and above
SettleRejectErrorStatus(res) ==
    IF res.status >= 400 THEN [kind |-> "rejected", code |-> "EBADSTATUS"]
    ELSE [kind |-> "resolved", status |-> res.status, body |-> ParseBody(res.data)]

\* res.on('end'): the promise resolves with the status and the parsed body
Settle(res) ==
    [kind |-> "resolved", status |-> res.status, body |-> ParseBody(res.data)]

\* history: the cookie names and values of the Set-Cookie headers, folded
\* into the per-name jar in header order
RECURSIVE JarAfter(_, _)
JarAfter(j, setCookie) ==
    IF setCookie = <<>> THEN j
    ELSE LET pair  == SplitHead(setCookie[1], ";")
             name  == SplitHead(pair, "=")
             value == SubSeq(pair, Len(name) + 2, Len(pair))
         IN  JarAfter((name :> value) @@ j, Tail(setCookie))

\* OnRedirect with a cap of one redirect: a second redirect in a row rejects
\* the request
OnRedirectCapped ==
    \E rq \in inflight, res \in RedirectResponses :
        /\ IsRedirect(res)
        /\ call.depth < MaxRedirects
        /\ cookies' = StoreCookies(cookies, res)
        /\ jar' = JarAfter(jar, res.setCookie)
        /\ lastRes' = res @@ [req |-> rq, error |-> NULL]
        /\ IF call.depth >= 1
           THEN /\ inflight' = inflight \ {rq}
                /\ result' = [kind |-> "rejected", code |-> "ETOOMANYREDIRECTS"]
                /\ UNCHANGED call
           ELSE /\ call' = [options |-> RedirectOptions(call.options), depth |-> call.depth + 1]
                /\ inflight' = (inflight \ {rq}) \cup
                     {BuildRequest(RedirectUrl(rq, res), call'.options, cookies', csrfToken)}
                /\ UNCHANGED result
        /\ UNCHANGED <<baseURL, csrfToken, ids, argv, pc, exitCode, frame, origCall,
                       loginThrew>>

\* the callback on a redirect: the cookies are stored, then the follow-up
\* request is issued with the same options
OnRedirect ==
    \E rq \in inflight, res \in RedirectResponses :
        /\ IsRedirect(res)
        /\ call.depth < MaxRedirects
        /\ cookies' = StoreCookies(cookies, res)
        /\ jar' = JarAfter(jar, res.setCookie)
        /\ lastRes' = res @@ [req |-> rq, error |-> NULL]
        /\ call' = [options |-> RedirectOptions(call.options), depth |-> call.depth + 1]
        /\ inflight' = (inflight \ {rq}) \cup
                {BuildRequest(RedirectUrl(rq, res), call'.options, cookies', csrfToken)}
        /\ UNCHANGED <<baseURL, csrfToken, ids, argv, pc, exitCode, frame, result,
                       origCall, loginThrew>>

\* OnResponse with the CSRF token taken from every page that has one
OnResponseRefreshingToken ==
    \E rq \in inflight, res \in FinalResponses :
        /\ ~IsRedirect(res)
        /\ cookies' = StoreCookies(cookies, res)
        /\ jar' = JarAfter(jar, res.setCookie)
        /\ lastRes' = res @@ [req |-> rq, error |-> NULL]
        /\ inflight' = inflight \ {rq}
        /\ result' = Settle(res)
        /\ csrfToken' = IF Includes(res.data, "<meta name=\"csrf-token\" content=\"abc123\"")
                        THEN "abc123" ELSE csrfToken
        /\ UNCHANGED <<baseURL, ids, argv, pc, exitCode, frame, call, origCall, loginThrew>>

\* the callback and the 'end' event of a response that is no redirect
OnResponse ==
    \E rq \in inflight, res \in FinalResponses :
        /\ ~IsRedirect(res)
        /\ cookies' = StoreCookies(cookies, res)
        /\ jar' = JarAfter(jar, res.setCookie)
        /\ lastRes' = res @@ [req |-> rq, error |-> NULL]
        /\ inflight' = inflight \ {rq}
        /\ result' = Settle(res)
        /\ UNCHANGED <<baseURL, csrfToken, ids, argv, pc, exitCode, frame, call,
                       origCall, loginThrew>>

\* req.on('error', reject)
OnTransportError ==
    \E rq \in inflight, code \in TransportErrors :
        /\ inflight' = inflight \ {rq}
        /\ result' = [kind |-> "rejected", code |-> code]
        /\ lastRes' = [NoRes EXCEPT !.req = rq, !.error = code]
        /\ UNCHANGED <<session, argv, pc, exitCode, frame, call, origCall, jar,
                       loginThrew>>

(***************************************************************************)
(* The process: arguments and environment.                                 *)
(***************************************************************************)
\* process.env.COOLIFY_USERNAME || process.env.U, and the password likewise
Email(env)    == IF env.COOLIFY_USERNAME # NULL THEN env.COOLIFY_USERNAME ELSE env.U
Password(env) == IF env.COOLIFY_PASSWORD # NULL THEN env.COOLIFY_PASSWORD ELSE env.P

Environments ==
    [COOLIFY_URL : {NULL}, COOLIFY_BASE_URL : {NULL}, COOLIFY_HOST : {"c.test/"},
     COOLIFY_USERNAME : {NULL, "u@x.io"}, COOLIFY_PASSWORD : {NULL},
     U : {NULL}, P : {NULL, "pw 1"}]

\* the commands: logs with auto-discovery, logs of an explicit triple, list
Commands == {"logs", "p1/e1/a1", "list"}

Init ==
    /\ argv \in [command : Commands, env : Environments]
    /\ baseURL = Constructor(NULL, argv.env)
    /\ cookies = ""
    /\ csrfToken = NULL
    /\ projectId = NULL
    /\ environmentId = NULL
    /\ applicationId = NULL
    /\ pc = "start"
    /\ exitCode = NULL
    /\ frame = [error |-> NULL, deploymentId |-> NULL, queue |-> <<>>,
                discovered |-> NULL, logs |-> NULL, strategy |-> NULL,
                printed |-> <<>>]
    /\ inflight = {}
    /\ call = NoCall
    /\ result = NoResult
    /\ origCall = [req |-> NoReq, options |-> NoOptions]
    /\ lastRes = NoRes
    /\ jar = NoJar
    /\ loginThrew = FALSE

(***************************************************************************)
(* Scanning a page with the global regular expressions of the code.        *)
(***************************************************************************)
\* the characters of [a-z0-9]
AlnumChars ==
    {"a", "b", "c", "d", "e", "f", "g", "h", "i", "j", "k", "l", "m", "n", "o", "p",
     "q", "r", "s", "t", "u", "v", "w", "x", "y", "z",
     "0", "1", "2", "3", "4", "5", "6", "7", "8", "9"}

\* the length of the longest run of [a-z0-9] that starts at position i
RECURSIVE AlnumRun(_, _)
AlnumRun(text, i) ==
    IF i <= Len(text) /\ SubSeq(text, i, i) \in AlnumChars
    THEN 1 + AlnumRun(text, i + 1) ELSE 0

\* the captures of all matches of /prefix([a-z0-9]+)/g at or after position i
RECURSIVE Captures(_, _, _)
Captures(text, prefix, i) ==
    LET k == IndexFrom(text, prefix, i)
        n == AlnumRun(text, k + Len(prefix))
    IN  IF k = 0 THEN <<>>
        ELSE IF n = 0 THEN Captures(text, prefix, k + 1)
        ELSE <<SubSeq(text, k + Len(prefix), k + Len(prefix) + n - 1)>>
             \o Captures(text, prefix, k + Len(prefix) + n)

\* if (!list.includes(x)) list.push(x), over a sequence of matches
RECURSIVE Distinct(_)
Distinct(matches) ==
    IF matches = <<>> THEN <<>>
    ELSE LET front == Distinct(SubSeq(matches, 1, Len(matches) - 1))
             x     == matches[Len(matches)]
         IN  IF \E j \in 1..Len(front) : front[j] = x THEN front ELSE Append(front, x)

\* IdsIn with the matches collected last to first
IdsInLastFirst(text, prefix) ==
    LET found == Distinct(Captures(text, prefix, 1))
    IN  [i \in 1..Len(found) |-> found[Len(found) + 1 - i]]

\* the ids found by /\/project\/([a-z0-9]+)/g and its like, without duplicates
IdsIn(text, prefix) == Distinct(Captures(text, prefix, 1))

\* the (project, environment) pairs of all matches of
\* /\/project\/([a-z0-9]+)\/environment\/([a-z0-9]+)/g at or after position i
RECURSIVE PairCaptures(_, _)
PairCaptures(text, i) ==
    LET k  == IndexFrom(text, "/project/", i)
        p  == k + Len("/project/")
        n  == AlnumRun(text, p)
        e  == p + n + Len("/environment/")
        m  == AlnumRun(text, e)
    IN  IF k = 0 THEN <<>>
        ELSE IF n > 0 /\ HasAt(text, "/environment/", p + n) /\ m > 0
             THEN <<[project |-> SubSeq(text, p, p + n - 1),
                     environment |-> SubSeq(text, e, e + m - 1)]>>
                  \o PairCaptures(text, e + m)
        ELSE PairCaptures(text, k + 1)

\* the pairs in the order of the loops over Object.entries(projects) and
\* project.environments: projects by first occurrence, the environments of
\* one project by first occurrence
RECURSIVE PairsOfProjects(_, _)
PairsOfProjects(projects, pairs) ==
    IF projects = <<>> THEN <<>>
    ELSE SelectSeq(pairs, LAMBDA x : x.project = projects[1])
         \o PairsOfProjects(Tail(projects), pairs)

RECURSIVE ProjectsOf(_)
ProjectsOf(pairs) ==
    IF pairs = <<>> THEN <<>> ELSE <<pairs[1].project>> \o ProjectsOf(Tail(pairs))

EnvironmentQueue(text) ==
    LET pairs == Distinct(PairCaptures(text, 1))
    IN  PairsOfProjects(Distinct(ProjectsOf(pairs)), pairs)

\* the position of the first '<' at or after position i, Len + 1 when none
TextEnd(text, i) ==
    LET k == IndexFrom(text, "<", i) IN IF k = 0 THEN Len(text) + 1 ELSE k

\* the position after the longest sequence of tags (?:<[^>]*>)* at position i
RECURSIVE TagsEnd(_, _)
TagsEnd(text, i) ==
    LET close == IndexFrom(text, ">", i + 1)
    IN  IF HasAt(text, "<", i) /\ close > 0 THEN TagsEnd(text, close + 1) ELSE i

\* the text contains Success, Failed, Running or Pending
HasStatus(text) ==
    \E w \in {"Success", "Failed", "Running", "Pending"} : Includes(text, w)

DeploymentIdLength == 24

\* the ids of all matches, at or after position i, of
\* /\/deployment\/([a-z0-9]{24})[^<]*(?:<[^>]*>)*([^<]*(?:Success|Failed|Running|Pending)[^<]*)/g
\* The id is followed by text up to the next '<', then tags, then text with a
\* status word; or, with no tag consumed, the status word is in the text that
\* follows the id.  The scan resumes where the match ended.
RECURSIVE StatusCaptures(_, _)
StatusCaptures(text, i) ==
    LET k    == IndexFrom(text, "/deployment/", i)
        p    == k + Len("/deployment/")
        q    == p + DeploymentIdLength
        aEnd == TextEnd(text, q)
        t    == TagsEnd(text, aEnd)
        bEnd == TextEnd(text, t)
        id   == SubSeq(text, p, q - 1)
    IN  IF k = 0 THEN <<>>
        ELSE IF AlnumRun(text, p) < DeploymentIdLength THEN StatusCaptures(text, k + 1)
        ELSE IF HasStatus(SubSeq(text, t, bEnd - 1))
             THEN <<id>> \o StatusCaptures(text, bEnd)
        ELSE IF HasStatus(SubSeq(text, q, aEnd - 1))
             THEN <<id>> \o StatusCaptures(text, aEnd)
        ELSE StatusCaptures(text, k + 1)

\* the ids of all matches of /\/deployment\/([a-z0-9]{24})/g
RECURSIVE PlainCaptures(_, _)
PlainCaptures(text, i) ==
    LET k == IndexFrom(text, "/deployment/", i)
        p == k + Len("/deployment/")
    IN  IF k = 0 THEN <<>>
        ELSE IF AlnumRun(text, p) < DeploymentIdLength THEN PlainCaptures(text, k + 1)
        ELSE <<SubSeq(text, p, p + DeploymentIdLength - 1)>>
             \o PlainCaptures(text, p + DeploymentIdLength)

\* what getDeploymentsList returns for the page
DeploymentIds(text) ==
    LET withStatus == Distinct(StatusCaptures(text, 1))
    IN  IF withStatus # <<>> THEN withStatus ELSE Distinct(PlainCaptures(text, 1))

\* String(body): the text a global regular expression scans
BodyText(body) == body.text

(***************************************************************************)
(* getDeploymentLogs(id): the five strategies.  A strategy yields          *)
(* [found, content, error]: content is the value assigned to logsContent   *)
(* (a JavaScript value), error the exception that leaves the strategy,     *)
(* NULL when none does.                                                    *)
(***************************************************************************)
SnapshotFieldMinLength == 500
BlockMaxLength == 5000
LineTailMax == 200

NoContent == [found |-> FALSE, content |-> Undefined, error |-> NULL]

Found(value) == [found |-> TRUE, content |-> value, error |-> NULL]

FoundText(text) == Found([t |-> "string", s |-> text])

Threw(name) == [found |-> FALSE, content |-> Undefined, error |-> name]

\* the least element of a non-empty set of positions
Least(set) == CHOOSE k \in set : \A m \in set : k <= m

\* body.match(/wire:snapshot="([^"]+)"/): the capture of the first match, NULL
\* when the pattern does not match
WireMatch(text) ==
    LET prefix  == "wire:snapshot=\""
        n       == Len(prefix)
        ends(i) == IndexFrom(text, "\"", i + n)
        hits    == {i \in 1..Len(text) : HasAt(text, prefix, i) /\ ends(i) > i + n}
    IN  IF hits = {} THEN NULL
        ELSE SubSeq(text, Least(hits) + n, ends(Least(hits)) - 1)

\* the four entity replacements applied to the snapshot attribute
DecodeSnapshot(s) ==
    ReplaceAll(ReplaceAll(ReplaceAll(ReplaceAll(s, "&quot;", "\""), "&lt;", "<"),
                          "&gt;", ">"), "&amp;", "&")

\* the values of Object.entries(data) that can be strings: the members of an
\* object, each name once, at its first place and with its last value (the
\* names of the model are no array indices, which would come first), and the
\* elements of an array
EntryValues(data) ==
    IF data.t = "object"
    THEN LET names == Distinct(data.keys)
         IN  [i \in 1..Len(names) |-> Prop(data, names[i])]
    ELSE IF data.t = "array" THEN data.vals
    ELSE <<>>

\* the first entry whose value is a string longer than 500 characters
FirstLongString(values) ==
    LET long == {i \in 1..Len(values) :
                    values[i].t = "string" /\ Len(values[i].s) > SnapshotFieldMinLength}
    IN  IF long = {} THEN NoContent ELSE Found(values[Least(long)])

\* SnapshotData with logs looked up before output
SnapshotDataLogsFirst(data) ==
    IF ~Truthy(data) THEN NoContent
    ELSE IF Truthy(Prop(data, "logs")) THEN Found(Prop(data, "logs"))
    ELSE IF Truthy(Prop(data, "output")) THEN Found(Prop(data, "output"))
    ELSE IF Truthy(Prop(data, "deployment_logs")) THEN Found(Prop(data, "deployment_logs"))
    ELSE FirstLongString(EntryValues(data))

\* the if-chain on wireData.data
SnapshotData(data) ==
    IF ~Truthy(data) THEN NoContent
    ELSE IF Truthy(Prop(data, "output")) THEN Found(Prop(data, "output"))
    ELSE IF Truthy(Prop(data, "logs")) THEN Found(Prop(data, "logs"))
    ELSE IF Truthy(Prop(data, "deployment_logs")) THEN Found(Prop(data, "deployment_logs"))
    ELSE FirstLongString(EntryValues(data))

\* wireData = JSON.parse(decoded) and the reads of wireData.data
SnapshotParsed(parsed) ==
    IF ~parsed.ok THEN Threw("SyntaxError")
    ELSE IF parsed.val.t = "null" THEN Threw("TypeError")
    ELSE SnapshotData(Prop(parsed.val, "data"))

\* the try block on the attribute matched
SnapshotOf(attr) ==
    IF attr = NULL THEN NoContent ELSE SnapshotParsed(JsonParse(DecodeSnapshot(attr)))

\* the body of the try block of strategy 1
TrySnapshot(text) == SnapshotOf(WireMatch(text))

\* WireStrategy without the catch: the exception leaves the strategy
WireStrategyUncaught(text) == TrySnapshot(text)

\* strategy 1, the Livewire snapshot: its catch reports the exception and the
\* strategy has found nothing
Caught(try) == IF try.error # NULL THEN NoContent ELSE try

WireStrategy(text) == Caught(TrySnapshot(text))

\* strategy 2: body.match(/<[^>]*>(Error|Server is not functional)[^<]*<\/[^>]*>/),
\* the whole match.  From a '<' the tag ends at the next '>', the word follows
\* it, the text after the word runs to the next '<', which opens a closing tag
StatusStrategy(text) ==
    LET open(i)  == IndexFrom(text, ">", i + 1)
        word(i)  == IF HasAt(text, "Error", open(i) + 1) THEN Len("Error")
                    ELSE IF HasAt(text, "Server is not functional", open(i) + 1)
                    THEN Len("Server is not functional") ELSE 0
        close(i) == IndexFrom(text, "<", open(i) + 1 + word(i))
        end(i)   == IndexFrom(text, ">", close(i) + 2)
        hits     == {i \in 1..Len(text) :
                        /\ HasAt(text, "<", i)
                        /\ open(i) > 0
                        /\ word(i) > 0
                        /\ close(i) > 0
                        /\ HasAt(text, "</", close(i))
                        /\ end(i) > 0}
    IN  IF hits = {} THEN NoContent
        ELSE FoundText(SubSeq(text, Least(hits), end(Least(hits))))

\* body.match(/<tag[^>]*>([\s\S]{1,5000}?)<\/tag>/): the capture of the first
\* match.  The opening tag ends at the next '>', the block is the shortest
\* text of at least one character before a closing tag
BlockMatch(text, opening, closing) ==
    LET open(i)  == IndexFrom(text, ">", i + Len(opening))
        close(i) == IndexFrom(text, closing, open(i) + 2)
        hits     == {i \in 1..Len(text) :
                        /\ HasAt(text, opening, i)
                        /\ open(i) > 0
                        /\ close(i) > 0
                        /\ close(i) - open(i) - 1 <= BlockMaxLength}
    IN  IF hits = {} THEN NoContent
        ELSE FoundText(SubSeq(text, open(Least(hits)) + 1, close(Least(hits)) - 1))

\* strategy 3
PreStrategy(text) == BlockMatch(text, "<pre", "</pre>")

\* strategy 4
CodeStrategy(text) == BlockMatch(text, "<code", "</code>")

Keywords == {"step", "clone", "install", "build", "error", "failed", "success", "docker"}

\* all matches of /(step|...|docker)[^\n]{0,200}/gi at or after position i;
\* lower is the text in lower case.  A match runs from the keyword over at
\* most 200 characters of the same line, and the scan resumes behind it
RECURSIVE KeywordMatches(_, _, _)
KeywordMatches(text, lower, i) ==
    LET hits  == {k \in i..Len(text) : \E w \in Keywords : HasAt(lower, w, k)}
        k     == Least(hits)
        w     == CHOOSE x \in Keywords : HasAt(lower, x, k)
        from  == k + Len(w)
        nl    == IndexFrom(text, "\n", from)
        line  == IF nl = 0 THEN Len(text) ELSE nl - 1
        end   == IF line - from + 1 > LineTailMax THEN from + LineTailMax - 1 ELSE line
    IN  IF hits = {} THEN <<>>
        ELSE <<SubSeq(text, k, end)>> \o KeywordMatches(text, lower, end + 1)

\* strategy 5: the matches joined by newlines
KeywordStrategy(text) ==
    LET matches == KeywordMatches(text, ToLower(text), 1)
    IN  IF matches = <<>> THEN NoContent ELSE FoundText(Join(matches, "\n"))

(***************************************************************************)
(* getDeploymentLogs(id): the normalisation of the content found.          *)
(***************************************************************************)
\* the white space \s of the patterns
Whitespace == {" ", "\t", "\n", "\r", "\f"}

RECURSIVE WhitespaceRun(_, _)
WhitespaceRun(s, i) == IF Ch(s, i) \in Whitespace THEN 1 + WhitespaceRun(s, i + 1) ELSE 0

\* s.replace(/<br\s*\/?>/gi, '\n')
RECURSIVE ReplaceBr(_)
ReplaceBr(s) ==
    LET lower  == ToLower(s)
        slash(i) == i + 3 + WhitespaceRun(s, i + 3)
        end(i) == IF Ch(s, slash(i)) = "/" THEN slash(i) + 1 ELSE slash(i)
        hits   == {i \in 1..Len(s) : HasAt(lower, "<br", i) /\ Ch(s, end(i)) = ">"}
    IN  IF hits = {} THEN s
        ELSE SubSeq(s, 1, Least(hits) - 1) \o "\n"
             \o ReplaceBr(SubSeq(s, end(Least(hits)) + 1, Len(s)))

\* s.replace(/<[^>]+>/g, ''): a tag is '<', at least one character other
\* than '>', and the next '>'
RECURSIVE StripTags(_)
StripTags(s) ==
    LET end(i) == IndexFrom(s, ">", i + 1)
        hits   == {i \in 1..Len(s) : HasAt(s, "<", i) /\ end(i) > i + 1}
    IN  IF hits = {} THEN s
        ELSE SubSeq(s, 1, Least(hits) - 1)
             \o StripTags(SubSeq(s, end(Least(hits)) + 1, Len(s)))

\* the entities and the escaped control characters, replaced in the order of
\* the code
DecodeEntities(s) ==
    LET a == ReplaceAll(s, "&lt;", "<")
        b == ReplaceAll(a, "&gt;", ">")
        c == ReplaceAll(b, "&amp;", "&")
        d == ReplaceAll(c, "&quot;", "\"")
        e == ReplaceAll(d, "&#039;", "'")
        f == ReplaceAll(e, "&nbsp;", " ")
        g == ReplaceAll(f, "\\n", "\n")
        h == ReplaceAll(g, "\\r", "\r")
    IN  ReplaceAll(h, "\\t", "\t")

\* Normalize with the tags removed before the entities are decoded
NormalizeStripFirst(content) == DecodeEntities(StripTags(ReplaceBr(ToStr(content))))

\* Normalize with doubled backslashes unescaped before the chain
NormalizeUnescaping(content) ==
    StripTags(ReplaceBr(DecodeEntities(ReplaceAll(ToStr(content), "\\\\", "\\"))))

\* String(logsContent) and the chain of replacements
Normalize(content) == StripTags(ReplaceBr(DecodeEntities(ToStr(content))))

(***************************************************************************)
(* getDeploymentLogs(id): the cascade.  It gives the strategy that set     *)
(* logFound ("none" when none did), the content found, and the exception   *)
(* that left a strategy.                                                   *)
(***************************************************************************)
Selected(name, yield) ==
    [strategy |-> name, content |-> yield.content, error |-> yield.error]

\* Cascade in the order of the older viewer: blocks first, then the
\* snapshot, the status markup and the keywords
CascadeBlocksFirst(wire, status, pre, code, keyword) ==
    IF pre.found THEN Selected("pre", pre)
    ELSE IF code.found THEN Selected("code", code)
    ELSE IF wire.error # NULL \/ wire.found THEN Selected("wire", wire)
    ELSE IF status.found THEN Selected("status", status)
    ELSE IF keyword.found THEN Selected("keyword", keyword)
    ELSE Selected("none", NoContent)

\* the strategies in the order of the code, each tried while logFound is false
Cascade(wire, status, pre, code, keyword) ==
    IF wire.error # NULL \/ wire.found THEN Selected("wire", wire)
    ELSE IF status.found THEN Selected("status", status)
    ELSE IF pre.found THEN Selected("pre", pre)
    ELSE IF code.found THEN Selected("code", code)
    ELSE IF keyword.found THEN Selected("keyword", keyword)
    ELSE Selected("none", NoContent)

\* the cascade on a page
ExtractContent(text) ==
    Cascade(WireStrategy(text), StatusStrategy(text), PreStrategy(text), CodeStrategy(text),
            KeywordStrategy(text))

\* the cascade on each page the network of the model serves, computed once
ExtractedBodies == {[text |-> b, x |-> ExtractContent(b)] : b \in Bodies}

\* the cascade on a page: looked up for a served page, computed otherwise
ExtractContentOf(text) ==
    IF text \in Bodies THEN (CHOOSE r \in ExtractedBodies : r.text = text).x
    ELSE ExtractContent(text)

\* the number of characters of the logs that are printed
DisplayLimit == 10000

TruncationMarker == "\n... (truncated) ...\n"

\* Returned with the text cut at the display limit
ReturnedCut(x) ==
    IF x.strategy # "none" /\ Truthy(x.content)
    THEN LET text == Normalize(x.content)
         IN  IF Len(text) > DisplayLimit THEN SubSeq(text, 1, DisplayLimit) ELSE text
    ELSE NULL

\* what the value returned by getDeploymentLogs says of the strategy that
\* produced it: the value is the text alone (return logsContent)
ReturnedStrategy(text) == NULL

\* what getDeploymentLogs returns for the page: the normalised text when a
\* strategy found content that is truthy, null otherwise
Returned(x) ==
    IF x.strategy # "none" /\ Truthy(x.content) THEN Normalize(x.content) ELSE NULL

ReturnedLogs(text) == Returned(ExtractContent(text))

(***************************************************************************)
(* login(email, password)                                                  *)
(***************************************************************************)
CsrfMetaPrefix == "<meta name=\"csrf-token\" content=\""
FailurePhrase  == "These credentials do not match"

\* body.match(/<meta name="csrf-token" content="([^"]+)"/): the capture of the
\* first match, NULL when the pattern does not match
CsrfMatch(text) ==
    LET n    == Len(CsrfMetaPrefix)
        ends(i) == IndexFrom(text, "\"", i + n)
        hits == {i \in 1..Len(text) : HasAt(text, CsrfMetaPrefix, i) /\ ends(i) > i + n}
    IN  IF hits = {} THEN NULL
        ELSE LET i == CHOOSE k \in hits : \A m \in hits : k <= m
             IN  SubSeq(text, i + n, ends(i) - 1)

\* the options of the credentialed POST
LoginOptions(token, email, password) ==
    [method  |-> "POST",
     headers |-> ("Content-Type" :> "application/x-www-form-urlencoded")
                 @@ ("X-CSRF-Token" :> token)
                 @@ ("Referer" :> baseURL \o "/login"),
     body    |-> URLSearchParams(email, password)]

\* the error login throws on the settled POST, NULL when it returns true
LoginErrorAnyFailure(r) ==
    IF r.kind = "rejected" THEN r.code
    ELSE IF ~CanInclude(r.body) THEN "TypeError"
    ELSE IF r.status >= 400 THEN "Invalid email or password"
    ELSE IF BodyIncludes(r.body, FailurePhrase) THEN "Invalid email or password"
    ELSE NULL

LoginError(r) ==
    IF r.kind = "rejected" THEN r.code
    ELSE IF ~CanInclude(r.body) THEN "TypeError"
    ELSE IF BodyIncludes(r.body, FailurePhrase) THEN "Invalid email or password"
    ELSE NULL

\* catch (error) { console.error(...); process.exit(1) } of the command
ExitOnError(message) ==
    /\ pc' = "exited"
    /\ exitCode' = 1
    /\ frame' = [frame EXCEPT !.error = message]
    /\ UNCHANGED <<session, argv, net>>

\* the command returns and the process ends
Finish ==
    /\ pc' = "done"
    /\ exitCode' = 0
    /\ UNCHANGED <<argv, frame, net>>

(***************************************************************************)
(* The pages of the application.                                           *)
(***************************************************************************)
ProjectUrl(p) == baseURL \o "/project/" \o p

EnvironmentUrl(p, e) == ProjectUrl(p) \o "/environment/" \o e

DeploymentsUrl(p, e, a) == EnvironmentUrl(p, e) \o "/application/" \o a \o "/deployment"

DeploymentUrl(p, e, a, d) == DeploymentsUrl(p, e, a) \o "/" \o d

\* command.includes('/') and command.split('/') has three parts, all non-empty
IsTriple(command) ==
    /\ Includes(command, "/")
    /\ Len(Split(command, "/")) = 3
    /\ \A i \in 1..3 : Split(command, "/")[i] # ""

(***************************************************************************)
(* The command after login() has returned: the list command lists the      *)
(* resources; the logs command takes the triple of the command line or     *)
(* discovers it, then fetches the deployments.                             *)
(***************************************************************************)
\* Workflow with discovery run for every logs command
WorkflowAlwaysDiscovers ==
    IF argv.command = "list"
    THEN /\ Request(baseURL \o "/dashboard", NoOptions, csrfToken)
         /\ pc' = "list_dashboard"
         /\ UNCHANGED <<baseURL, csrfToken, ids, argv, exitCode, frame>>
    ELSE /\ Request(baseURL \o "/dashboard", NoOptions, csrfToken)
         /\ pc' = "discover_dashboard"
         /\ UNCHANGED <<baseURL, csrfToken, ids, argv, exitCode, frame>>

Workflow ==
    IF argv.command = "list"
    THEN /\ Request(baseURL \o "/dashboard", NoOptions, csrfToken)
         /\ pc' = "list_dashboard"
         /\ UNCHANGED <<baseURL, csrfToken, ids, argv, exitCode, frame>>
    ELSE IF IsTriple(argv.command)
    THEN LET parts == Split(argv.command, "/")
         IN  /\ projectId' = parts[1]
             /\ environmentId' = parts[2]
             /\ applicationId' = parts[3]
             /\ Request(DeploymentsUrl(parts[1], parts[2], parts[3]), NoOptions, csrfToken)
             /\ pc' = "deployments"
             /\ UNCHANGED <<baseURL, csrfToken, argv, exitCode, frame>>
    ELSE /\ Request(baseURL \o "/dashboard", NoOptions, csrfToken)
         /\ pc' = "discover_dashboard"
         /\ UNCHANGED <<baseURL, csrfToken, ids, argv, exitCode, frame>>

\* the message of the error login() throws for a host that does not resolve
ResolveErrorMessage(url) ==
    "Could not resolve Coolify server: " \o url \o "\n\n"
    \o "Please specify your Coolify URL using one of these methods:\n"
    \o "  1. Command line: coolify-logs https://your-coolify-url\n"
    \o "  2. Environment variable: export COOLIFY_URL=https://your-coolify-url\n"
    \o "  3. Environment variable: export COOLIFY_HOST=your-coolify-url\n\n"
    \o "Example: coolify-logs https://coolify.example.com"

\* LoginCatch that reports every transport error as an unresolved host
LoginCatchAnyTransportError(err) ==
    IF err \in TransportErrors THEN ResolveErrorMessage(baseURL) ELSE err

\* catch (error) of login(): ENOTFOUND becomes the configuration error, any
\* other error is thrown again as it is
LoginCatch(err) ==
    IF err = "ENOTFOUND" THEN ResolveErrorMessage(baseURL) ELSE err

\* LoginFailed with the error swallowed: the command carries on
LoginFailedSwallowed(err) ==
    /\ Workflow
    /\ loginThrew' = TRUE

\* login() throws: the catch of the command reports the error and exits
LoginFailed(err) ==
    /\ ExitOnError(LoginCatch(err))
    /\ loginThrew' = TRUE

\* the command starts: without credentials it exits, otherwise login() gets
\* the login page
Start ==
    /\ pc = "start"
    /\ IF Email(argv.env) = NULL \/ Password(argv.env) = NULL
       THEN /\ pc' = "exited"
            /\ exitCode' = 1
            /\ UNCHANGED <<session, argv, frame, net, loginThrew>>
       ELSE /\ Request(baseURL \o "/login", NoOptions, csrfToken)
            /\ pc' = "login_page"
            /\ UNCHANGED <<baseURL, csrfToken, ids, argv, exitCode, frame, loginThrew>>

\* login() after the login page: the token is taken from the meta tag and the
\* credentials are posted
LoginPage ==
    /\ pc = "login_page"
    /\ result.kind # "pending"
    /\ IF result.kind = "rejected" \/ ~CanMatch(result.body)
       THEN LoginFailed(IF result.kind = "rejected" THEN result.code ELSE "TypeError")
       ELSE /\ csrfToken' = CsrfMatch(result.body.text)
            /\ Request(baseURL \o "/login",
                       LoginOptions(csrfToken', Email(argv.env), Password(argv.env)),
                       csrfToken')
            /\ pc' = "login_post"
            /\ UNCHANGED <<baseURL, ids, argv, exitCode, frame, loginThrew>>

\* login() after the POST, and the command after login()
LoginPost ==
    /\ pc = "login_post"
    /\ result.kind # "pending"
    /\ IF LoginError(result) # NULL
       THEN LoginFailed(LoginError(result))
       ELSE Workflow /\ UNCHANGED loginThrew

(***************************************************************************)
(* discoverResources()                                                     *)
(***************************************************************************)
\* DiscoveryFailed with the command going on to the deployments page
DiscoveryFailedGoesOn ==
    /\ frame' = [frame EXCEPT !.discovered = "false"]
    /\ Request(DeploymentsUrl("null", "null", "null"), NoOptions, csrfToken)
    /\ pc' = "deployments"
    /\ UNCHANGED <<baseURL, csrfToken, argv, exitCode>>

\* DiscoveryFailed with the failure treated as an error of the command
DiscoveryFailedExits ==
    /\ pc' = "exited"
    /\ exitCode' = 1
    /\ frame' = [frame EXCEPT !.discovered = "false",
                              !.error = "Could not discover resource IDs"]
    /\ UNCHANGED <<baseURL, cookies, csrfToken, argv, net>>

\* discoverResources returns false: the command reports it and returns
DiscoveryFailed ==
    /\ pc' = "done"
    /\ exitCode' = 0
    /\ frame' = [frame EXCEPT !.discovered = "false"]
    /\ UNCHANGED <<baseURL, cookies, csrfToken, argv, net>>

\* the dashboard is scanned for projects and the page of the first is fetched
ScanDashboard(text) ==
    LET projects == IdsIn(text, "/project/")
    IN  IF projects = <<>>
        THEN DiscoveryFailed /\ UNCHANGED ids
        ELSE /\ projectId' = projects[1]
             /\ Request(ProjectUrl(projects[1]), NoOptions, csrfToken)
             /\ pc' = "discover_project"
             /\ UNCHANGED <<baseURL, csrfToken, environmentId, applicationId, argv,
                            exitCode, frame>>

\* after /dashboard: an empty (falsy) body or one with '404' falls back to the
\* root; a body without includes() raises, which discoverResources catches
DiscoverDashboard ==
    /\ pc = "discover_dashboard"
    /\ result.kind # "pending"
    /\ UNCHANGED loginThrew
    /\ IF result.kind = "rejected" \/ (result.body.truthy /\ ~CanInclude(result.body))
       THEN DiscoveryFailed /\ UNCHANGED ids
       ELSE IF ~result.body.truthy \/ BodyIncludes(result.body, "404")
       THEN /\ Request(baseURL \o "/", NoOptions, csrfToken)
            /\ pc' = "discover_root"
            /\ UNCHANGED <<baseURL, csrfToken, ids, argv, exitCode, frame>>
       ELSE ScanDashboard(BodyText(result.body))

\* after the root page
DiscoverRoot ==
    /\ pc = "discover_root"
    /\ result.kind # "pending"
    /\ UNCHANGED loginThrew
    /\ IF result.kind = "rejected"
       THEN DiscoveryFailed /\ UNCHANGED ids
       ELSE ScanDashboard(BodyText(result.body))

\* DiscoverProject that takes the project, too, from the project page
DiscoverProjectRescoped ==
    /\ pc = "discover_project"
    /\ result.kind # "pending"
    /\ UNCHANGED loginThrew
    /\ IF result.kind = "rejected"
       THEN DiscoveryFailed /\ UNCHANGED ids
       ELSE LET text         == BodyText(result.body)
                projects     == IdsIn(text, "/project/")
                environments == IdsIn(text, "/environment/")
                applications == IdsIn(text, "/application/")
            IN  IF projects = <<>> \/ environments = <<>> \/ applications = <<>>
                THEN DiscoveryFailed /\ UNCHANGED ids
                ELSE /\ projectId' = projects[1]
                     /\ environmentId' = environments[1]
                     /\ applicationId' = applications[1]
                     /\ frame' = [frame EXCEPT !.discovered = "true"]
                     /\ Request(DeploymentsUrl(projects[1], environments[1],
                                               applications[1]), NoOptions, csrfToken)
                     /\ pc' = "deployments"
                     /\ UNCHANGED <<baseURL, csrfToken, argv, exitCode>>

\* after the project page: the first environment and the first application of
\* that page; with the triple found the deployments are fetched
DiscoverProject ==
    /\ pc = "discover_project"
    /\ result.kind # "pending"
    /\ UNCHANGED loginThrew
    /\ IF result.kind = "rejected"
       THEN DiscoveryFailed /\ UNCHANGED ids
       ELSE LET text         == BodyText(result.body)
                environments == IdsIn(text, "/environment/")
                applications == IdsIn(text, "/application/")
            IN  IF environments = <<>>
                THEN DiscoveryFailed /\ UNCHANGED ids
                ELSE IF applications = <<>>
                THEN /\ environmentId' = environments[1]
                     /\ DiscoveryFailed
                     /\ UNCHANGED <<projectId, applicationId>>
                ELSE /\ environmentId' = environments[1]
                     /\ applicationId' = applications[1]
                     /\ frame' = [frame EXCEPT !.discovered = "true"]
                     /\ Request(DeploymentsUrl(projectId, environments[1], applications[1]),
                                NoOptions, csrfToken)
                     /\ pc' = "deployments"
                     /\ UNCHANGED <<baseURL, csrfToken, projectId, argv, exitCode>>

(***************************************************************************)
(* getDeploymentsList(), getDeploymentDetails(id), getDeploymentLogs(id)   *)
(***************************************************************************)
\* after the deployments page: without deployments the command returns,
\* otherwise the page of the first is fetched for its details
Deployments ==
    /\ pc = "deployments"
    /\ result.kind # "pending"
    /\ UNCHANGED loginThrew
    /\ IF result.kind = "rejected"
       THEN ExitOnError(result.code)
       ELSE LET found == DeploymentIds(BodyText(result.body))
            IN  IF found = <<>>
                THEN Finish /\ UNCHANGED session
                ELSE /\ frame' = [frame EXCEPT !.deploymentId = found[1]]
                     /\ Request(DeploymentUrl(projectId, environmentId, applicationId,
                                              found[1]), NoOptions, csrfToken)
                     /\ pc' = "details"
                     /\ UNCHANGED <<baseURL, csrfToken, ids, argv, exitCode>>

\* after the deployment page of getDeploymentDetails: the same page is
\* fetched again by getDeploymentLogs
Details ==
    /\ pc = "details"
    /\ result.kind # "pending"
    /\ UNCHANGED loginThrew
    /\ IF result.kind = "rejected" \/ ~CanMatch(result.body)
       THEN ExitOnError(IF result.kind = "rejected" THEN result.code ELSE "TypeError")
       ELSE /\ Request(DeploymentUrl(projectId, environmentId, applicationId,
                                     frame.deploymentId), NoOptions, csrfToken)
            /\ pc' = "logs"
            /\ UNCHANGED <<baseURL, csrfToken, ids, argv, exitCode, frame>>

\* logsContent.substring(0, 10000)
Displayed(text) ==
    IF Len(text) > DisplayLimit THEN SubSeq(text, 1, DisplayLimit) ELSE text

\* what is printed between the lines '--- DEPLOYMENT LOGS ---' and
\* '--- END LOGS ---' for the value getDeploymentLogs returns: the text up to
\* the display limit, then the marker when the text is longer; nothing for null
Printed(logs) ==
    IF logs = NULL THEN <<>>
    ELSE IF Len(logs) > DisplayLimit THEN <<Displayed(logs), TruncationMarker>>
    ELSE <<Displayed(logs)>>

\* getDeploymentLogs prints the logs and returns them, and the command is done
LogsPrinted(x, logs) ==
    /\ pc' = "done"
    /\ exitCode' = 0
    /\ frame' = [frame EXCEPT !.logs = logs, !.strategy = x.strategy,
                              !.printed = Printed(logs)]
    /\ UNCHANGED <<session, argv, net>>

\* LogsPrinted with a null result of getDeploymentLogs treated as an error
LogsPrintedMissExits(x, logs) ==
    /\ pc' = IF logs = NULL THEN "exited" ELSE "done"
    /\ exitCode' = IF logs = NULL THEN 1 ELSE 0
    /\ frame' = [frame EXCEPT !.logs = logs, !.strategy = x.strategy,
                              !.printed = Printed(logs)]
    /\ UNCHANGED <<session, argv, net>>

\* LogsExtracted with a null result of getDeploymentLogs treated as an error
LogsExtractedMissExits(x) ==
    IF x.error # NULL
    THEN ExitOnError(x.error)
    ELSE LogsPrintedMissExits(x, Returned(x))

\* the end of getDeploymentLogs on the outcome x of the strategies: an
\* exception that left a strategy ends the command, otherwise the logs found
\* are normalised, printed and returned, and the command is done
LogsExtracted(x) ==
    IF x.error # NULL
    THEN ExitOnError(x.error)
    ELSE LogsPrinted(x, Returned(x))

\* after the deployment page of getDeploymentLogs: the strategies are tried
\* on the page
Logs ==
    /\ pc = "logs"
    /\ result.kind # "pending"
    /\ UNCHANGED loginThrew
    /\ IF result.kind = "rejected" \/ ~CanMatch(result.body)
       THEN ExitOnError(IF result.kind = "rejected" THEN result.code ELSE "TypeError")
       ELSE LogsExtracted(ExtractContentOf(result.body.text))

(***************************************************************************)
(* listAllResources()                                                      *)
(***************************************************************************)
\* FetchEnvironments with the pages of all environments requested at once
FetchEnvironmentsAtOnce(queue) ==
    IF queue = <<>>
    THEN Finish /\ UNCHANGED session
    ELSE /\ frame' = [frame EXCEPT !.queue = <<>>]
         /\ inflight' = inflight \cup
                {BuildRequest(EnvironmentUrl(queue[i].project, queue[i].environment),
                              NoOptions, cookies, csrfToken) : i \in 1..Len(queue)}
         /\ call' = [options |-> NoOptions, depth |-> 0]
         /\ origCall' = [req |-> BuildRequest(EnvironmentUrl(queue[1].project,
                                                             queue[1].environment),
                                              NoOptions, cookies, csrfToken),
                         options |-> NoOptions]
         /\ result' = NoResult
         /\ pc' = "list_environment"
         /\ UNCHANGED <<lastRes, jar, cookies, baseURL, csrfToken, ids, argv, exitCode>>

\* the page of the next environment is fetched; with none left the command
\* is done
FetchEnvironments(queue) ==
    IF queue = <<>>
    THEN Finish /\ UNCHANGED session
    ELSE /\ frame' = [frame EXCEPT !.queue = Tail(queue)]
         /\ Request(EnvironmentUrl(queue[1].project, queue[1].environment),
                    NoOptions, csrfToken)
         /\ pc' = "list_environment"
         /\ UNCHANGED <<baseURL, csrfToken, ids, argv, exitCode>>

\* after /dashboard
ListDashboard ==
    /\ pc = "list_dashboard"
    /\ result.kind # "pending"
    /\ UNCHANGED loginThrew
    /\ IF result.kind = "rejected" \/ (result.body.truthy /\ ~CanInclude(result.body))
       THEN Finish /\ UNCHANGED session
       ELSE IF ~result.body.truthy \/ BodyIncludes(result.body, "404")
       THEN /\ Request(baseURL \o "/", NoOptions, csrfToken)
            /\ pc' = "list_root"
            /\ UNCHANGED <<baseURL, csrfToken, ids, argv, exitCode, frame>>
       ELSE FetchEnvironments(EnvironmentQueue(BodyText(result.body)))

\* after the root page
ListRoot ==
    /\ pc = "list_root"
    /\ result.kind # "pending"
    /\ UNCHANGED loginThrew
    /\ IF result.kind = "rejected"
       THEN Finish /\ UNCHANGED session
       ELSE FetchEnvironments(EnvironmentQueue(BodyText(result.body)))

\* after the page of one environment: its domains are printed, an error is
\* reported and the loop goes on
ListEnvironment ==
    /\ pc = "list_environment"
    /\ result.kind # "pending"
    /\ UNCHANGED loginThrew
    /\ FetchEnvironments(frame.queue)

(***************************************************************************)
(* The specification.                                                      *)
(***************************************************************************)
Next ==
    \/ Start
    \/ LoginPage
    \/ LoginPost
    \/ DiscoverDashboard
    \/ DiscoverRoot
    \/ DiscoverProject
    \/ Deployments
    \/ Details
    \/ Logs
    \/ ListDashboard
    \/ ListRoot
    \/ ListEnvironment
    \/ OnRedirect
    \/ OnResponse
    \/ OnTransportError

Spec == Init /\ [][Next]_vars

(***************************************************************************)
(* getDeploymentLogs on its own: the command is suspended in               *)
(* getDeploymentLogs and the deployment page has arrived.  The pages are   *)
(* put together from the fragments the strategies look for, laid out in    *)
(* the reverse of the order in which the strategies are tried.             *)
(***************************************************************************)
\* n copies of s
RECURSIVE Repeat(_, _)
Repeat(s, n) ==
    IF n = 0 THEN "" ELSE IF n = 1 THEN s
    ELSE Repeat(s, n \div 2) \o Repeat(s, n - n \div 2)

\* the snapshot attribute: absent; with output; with empty output and logs;
\* with a number as output; cut short; null; without data; with data that
\* holds none of the known fields; with a long string among other fields;
\* with logs before output; with a long string before deployment_logs
SnapshotFragments ==
    { "",
      "<div wire:snapshot=\"{&quot;data&quot;:{&quot;output&quot;:&quot;Line 1\\nLine &amp;lt;2&amp;gt;&quot;}}\"></div>",
      "<div wire:snapshot=\"{&quot;data&quot;:{&quot;output&quot;:&quot;&quot;,&quot;logs&quot;:&quot;<b>from logs</b>&quot;}}\"></div>",
      "<div wire:snapshot=\"{&quot;data&quot;:{&quot;output&quot;:7}}\"></div>",
      "<div wire:snapshot=\"{&quot;data&quot;:{&quot;output&quot;:\"></div>",
      "<div wire:snapshot=\"null\"></div>",
      "<div wire:snapshot=\"{&quot;memo&quot;:{&quot;id&quot;:&quot;x1&quot;}}\"></div>",
      "<div wire:snapshot=\"{&quot;data&quot;:{&quot;id&quot;:4,&quot;name&quot;:&quot;short&quot;}}\"></div>",
      "<div wire:snapshot=\"{&quot;data&quot;:{&quot;id&quot;:4,&quot;text&quot;:&quot;"
          \o Repeat("log line; ", 51) \o "&quot;}}\"></div>",
      "<div wire:snapshot=\"{&quot;data&quot;:{&quot;logs&quot;:&quot;from logs&quot;,&quot;output&quot;:&quot;from output&quot;}}\"></div>",
      "<div wire:snapshot=\"{&quot;data&quot;:{&quot;text&quot;:&quot;"
          \o Repeat("log line; ", 51)
          \o "&quot;,&quot;deployment_logs&quot;:&quot;from deployment&quot;}}\"></div>" }

StatusFragments == {"", "<div class=\"alert\">Error: boom &amp; bust</div>"}

PreFragments == {"", "<pre class=\"l\">a &lt;none&gt; <i>b</i><br/>c</pre>"}

CodeFragments == {"", "<code>x = 1</code>", "<code><i></i></code>"}

KeywordFragments == {"", "\n<p>Step 1 done\nnow Build it</p>"}

\* a page whose snapshot has an output of n times ten characters
LongPage(n) ==
    "<div wire:snapshot=\"{&quot;data&quot;:{&quot;output&quot;:&quot;"
    \o Repeat("0123456789", n) \o "&quot;}}\"></div>"

\* outputs of the display limit and of ten characters more
LongPages == {LongPage(DisplayLimit \div 10), LongPage(DisplayLimit \div 10 + 1)}

ExtractPages ==
    {"<html>" \o k \o c \o p \o t \o w \o "</html>" :
        k \in KeywordFragments, c \in CodeFragments, p \in PreFragments,
        t \in StatusFragments, w \in SnapshotFragments}
    \cup {"{\"ok\":true}"}
    \cup LongPages

InitExtract ==
    /\ argv = [command |-> "p1/e1/a1",
               env |-> [COOLIFY_URL |-> NULL, COOLIFY_BASE_URL |-> NULL,
                        COOLIFY_HOST |-> "c.test/", COOLIFY_USERNAME |-> "u@x.io",
                        COOLIFY_PASSWORD |-> NULL, U |-> NULL, P |-> "pw 1"]]
    /\ baseURL = Constructor(NULL, argv.env)
    /\ cookies = "sid=1"
    /\ csrfToken = "abc123"
    /\ projectId = "p1"
    /\ environmentId = "e1"
    /\ applicationId = "a1"
    /\ pc = "logs"
    /\ exitCode = NULL
    /\ frame = [error |-> NULL, deploymentId |-> "d0000000000000000000000a",
                queue |-> <<>>, discovered |-> NULL, logs |-> NULL, strategy |-> NULL,
                printed |-> <<>>]
    /\ inflight = {}
    /\ call = NoCall
    /\ origCall = [req |-> BuildRequest(DeploymentUrl("p1", "e1", "a1", frame.deploymentId),
                                       NoOptions, "sid=1", "abc123"),
                   options |-> NoOptions]
    /\ \E page \in ExtractPages, status \in {200, 500} :
          LET res == [status |-> status, setCookie |-> <<>>, location |-> NULL, data |-> page]
          IN  /\ result = Settle(res)
              /\ lastRes = res @@ [req |-> origCall.req, error |-> NULL]
    /\ jar = ("sid" :> "1")
    /\ loginThrew = FALSE

NextExtract == Logs

SpecExtract == InitExtract /\ [][NextExtract]_vars

(***************************************************************************)
(* The constructor by itself: new CoolifyLogs(url) on every combination of *)
(* the argument and the environment variables that name the base URL.      *)
(***************************************************************************)
\* what the argument can hold: unset, empty, a host, a host with one or two
\* trailing slashes, a URL, a URL with one or two trailing slashes
RawBaseURLs ==
    {NULL, "", "c.test", "c.test/", "c.test//", "http://c.test", "https://c.test/",
     "https://c.test//"}

ConstructEnvironments ==
    [COOLIFY_URL : {NULL, "http://b.test/", "b.test//"},
     COOLIFY_BASE_URL : {NULL, "", "https://d.test"},
     COOLIFY_HOST : {NULL, "c.test/"},
     COOLIFY_USERNAME : {"u@x.io"}, COOLIFY_PASSWORD : {NULL}, U : {NULL}, P : {"pw 1"}]

InitConstruct ==
    /\ argv \in [command : {"logs"}, env : ConstructEnvironments, url : RawBaseURLs]
    /\ baseURL = NULL
    /\ cookies = ""
    /\ csrfToken = NULL
    /\ projectId = NULL
    /\ environmentId = NULL
    /\ applicationId = NULL
    /\ pc = "construct"
    /\ exitCode = NULL
    /\ frame = [error |-> NULL, deploymentId |-> NULL, queue |-> <<>>,
                discovered |-> NULL, logs |-> NULL, strategy |-> NULL,
                printed |-> <<>>]
    /\ inflight = {}
    /\ call = NoCall
    /\ result = NoResult
    /\ origCall = [req |-> NoReq, options |-> NoOptions]
    /\ lastRes = NoRes
    /\ jar = NoJar
    /\ loginThrew = FALSE

\* new CoolifyLogs(argv.url)
Construct ==
    /\ pc = "construct"
    /\ baseURL' = Constructor(argv.url, argv.env)
    /\ pc' = "start"
    /\ UNCHANGED <<cookies, csrfToken, ids, argv, exitCode, frame, net, loginThrew>>

NextConstruct == Construct

SpecConstruct == InitConstruct /\ [][NextConstruct]_vars

(***************************************************************************)
(* The normalisation by itself: the chain of replacements applied to a     *)
(* text, and applied again to its own result.  The text, frame.content, is *)
(* a concatenation of at most MaxPieces pieces.                            *)
(***************************************************************************)
MaxPieces == 4

\* a backslash, letters that make an escape with it, an ampersand, the tails
\* of two entities, the opening and the closing of a tag
Pieces == {"\\", "n", "r", "&", "amp;", "lt;", "<b", ">"}

RECURSIVE Concat(_)
Concat(ps) == IF ps = <<>> THEN "" ELSE ps[1] \o Concat(Tail(ps))

Text(s) == [t |-> "string", s |-> s]

InitNormalize ==
    /\ argv = [command |-> "p1/e1/a1",
               env |-> [COOLIFY_URL |-> NULL, COOLIFY_BASE_URL |-> NULL,
                        COOLIFY_HOST |-> "c.test/", COOLIFY_USERNAME |-> "u@x.io",
                        COOLIFY_PASSWORD |-> NULL, U |-> NULL, P |-> "pw 1"]]
    /\ baseURL = Constructor(NULL, argv.env)
    /\ cookies = "sid=1"
    /\ csrfToken = "abc123"
    /\ projectId = "p1"
    /\ environmentId = "e1"
    /\ applicationId = "a1"
    /\ pc = "normalize"
    /\ exitCode = NULL
    /\ \E n \in 0..MaxPieces : \E ps \in [1..n -> Pieces] :
          frame = [error |-> NULL, deploymentId |-> "d0000000000000000000000a",
                   queue |-> <<>>, discovered |-> NULL, logs |-> NULL, strategy |-> NULL,
                   printed |-> <<>>, content |-> Concat(ps)]
    /\ inflight = {}
    /\ call = NoCall
    /\ result = NoResult
    /\ origCall = [req |-> NoReq, options |-> NoOptions]
    /\ lastRes = NoRes
    /\ jar = NoJar
    /\ loginThrew = FALSE

\* the chain is applied to the text
NormalizeOnce ==
    /\ pc = "normalize"
    /\ frame' = [frame EXCEPT !.logs = Normalize(Text(frame.content))]
    /\ pc' = "normalized"
    /\ UNCHANGED <<session, argv, exitCode, net, loginThrew>>

\* the chain is applied to its own result
NormalizeAgain ==
    /\ pc = "normalized"
    /\ frame' = [frame EXCEPT !.logs = Normalize(Text(frame.logs))]
    /\ pc' = "renormalized"
    /\ UNCHANGED <<session, argv, exitCode, net, loginThrew>>

NextNormalize == NormalizeOnce \/ NormalizeAgain

SpecNormalize == InitNormalize /\ [][NextNormalize]_vars

(***************************************************************************)
(* getDeploymentsList on the pages of deployments.  A page is a list of    *)
(* entries: a link to a deployment with or without its status, a link with *)
(* an id that is too short, plain text.                                    *)
(***************************************************************************)
MaxEntries == 3

IdA == "d0000000000000000000000a"
IdB == "d0000000000000000000000b"

DeploymentLink(id, label) ==
    "<a href=\"/project/p1/environment/e1/application/a1/deployment/" \o id \o "\">"
    \o label \o "</a>"

ListEntries ==
    { DeploymentLink(IdA, "one"),
      DeploymentLink(IdA, "<span>Success</span>"),
      DeploymentLink(IdB, "two"),
      DeploymentLink(IdB, "<span>Failed</span>"),
      DeploymentLink("d123", "short"),
      " and " }

ListPages == {Concat(es) : es \in UNION {[1..n -> ListEntries] : n \in 0..MaxEntries}}

InitList ==
    /\ argv = [command |-> "p1/e1/a1",
               env |-> [COOLIFY_URL |-> NULL, COOLIFY_BASE_URL |-> NULL,
                        COOLIFY_HOST |-> "c.test/", COOLIFY_USERNAME |-> "u@x.io",
                        COOLIFY_PASSWORD |-> NULL, U |-> NULL, P |-> "pw 1"]]
    /\ baseURL = Constructor(NULL, argv.env)
    /\ cookies = "sid=1"
    /\ csrfToken = "abc123"
    /\ projectId = "p1"
    /\ environmentId = "e1"
    /\ applicationId = "a1"
    /\ pc = "deployments"
    /\ exitCode = NULL
    /\ frame = [error |-> NULL, deploymentId |-> NULL, queue |-> <<>>,
                discovered |-> NULL, logs |-> NULL, strategy |-> NULL, printed |-> <<>>]
    /\ inflight = {}
    /\ call = NoCall
    /\ origCall = [req |-> BuildRequest(DeploymentsUrl("p1", "e1", "a1"),
                                       NoOptions, "sid=1", "abc123"),
                   options |-> NoOptions]
    /\ \E page \in ListPages :
          LET res == [status |-> 200, setCookie |-> <<>>, location |-> NULL, data |-> page]
          IN  /\ result = Settle(res)
              /\ lastRes = res @@ [req |-> origCall.req, error |-> NULL]
    /\ jar = ("sid" :> "1")
    /\ loginThrew = FALSE

NextList == Deployments

SpecList == InitList /\ [][NextList]_vars

(***************************************************************************)
(* Properties.  A request in flight at redirect depth 0 is the request a   *)
(* function has just issued; at depth > 0 it follows the redirect recorded *)
(* in lastRes.                                                             *)
(***************************************************************************)
\* the name=value pairs of a Cookie header
CookiePairs(header) == {Split(header, "; ")[i] : i \in 1..Len(Split(header, "; "))}

\* the request in flight follows a redirect
FollowsRedirect(rq) == rq \in inflight /\ call.depth > 0

\* a Location with a scheme
IsAbsoluteLocation(loc) == StartsWith(loc, "http://") \/ StartsWith(loc, "https://")

\* the command has just come back from a successful login(): its first
\* request is in flight and lastRes is still the answer to the login POST
JustLoggedIn ==
    /\ inflight # {}
    /\ call.depth = 0
    /\ \/ pc \in {"list_dashboard", "discover_dashboard"}
       \/ pc = "deployments" /\ IsTriple(argv.command)

\* login() has thrown on the received answer to its POST
ThrewOnPostResponse ==
    loginThrew /\ lastRes.error = NULL /\ lastRes.req.method = "POST"

\* login() has thrown on the received login page
ThrewOnLoginPage ==
    loginThrew /\ lastRes.error = NULL /\ lastRes.req.method = "GET"

\* C1: the Cookie header of every request sent holds exactly one name=value
\* pair per cookie name the server has set so far, with the value the server
\* supplied last for that name
C1_CookieHeaderIsJar ==
    \A rq \in inflight :
        jar # NoJar =>
            /\ "Cookie" \in DOMAIN rq.headers
            /\ CookiePairs(rq.headers["Cookie"]) = {n \o "=" \o jar[n] : n \in DOMAIN jar}
            /\ Len(Split(rq.headers["Cookie"], "; ")) = Cardinality(DOMAIN jar)

\* C2: the request that follows a redirect carries, in its Cookie header, every
\* cookie the redirect response has set
C2_RedirectCarriesNewCookies ==
    \A rq \in inflight :
        FollowsRedirect(rq) /\ lastRes.setCookie # <<>> =>
            /\ "Cookie" \in DOMAIN rq.headers
            /\ \A i \in 1..Len(lastRes.setCookie) :
                  SplitHead(lastRes.setCookie[i], ";") \in CookiePairs(rq.headers["Cookie"])

C2_Witness ==
    \E rq \in inflight :
        /\ FollowsRedirect(rq)
        /\ lastRes.setCookie = <<"sid=1; Path=/; HttpOnly">>
        /\ rq.headers["Cookie"] = "sid=1"

\* C3: the request that follows a redirect has the method, the body and the
\* caller-supplied headers of the request first issued for the call
C3_RedirectKeepsOptions ==
    \A rq \in inflight :
        FollowsRedirect(rq) =>
            /\ rq.method = origCall.req.method
            /\ rq.body = origCall.req.body
            /\ \A h \in DOMAIN origCall.options.headers :
                  /\ h \in DOMAIN rq.headers
                  /\ rq.headers[h] = origCall.req.headers[h]

C3_Witness ==
    \E rq \in inflight :
        /\ FollowsRedirect(rq)
        /\ rq.method = "POST"
        /\ rq.body = "email=u%40x.io&password=pw+1"
        /\ rq.url = baseURL \o "/foo"

C6_CsrfHeaderOnEveryRequest ==
    \A rq \in inflight :
        /\ csrfToken # NULL =>
              "X-CSRF-Token" \in DOMAIN rq.headers /\ rq.headers["X-CSRF-Token"] = csrfToken
        /\ csrfToken = NULL /\ "X-CSRF-Token" \in DOMAIN rq.headers =>
              /\ "X-CSRF-Token" \in DOMAIN origCall.options.headers
              /\ rq.headers["X-CSRF-Token"] = origCall.options.headers["X-CSRF-Token"]

C6_Witness ==
    \E rq \in inflight :
        /\ FollowsRedirect(rq)
        /\ rq.method = "GET"
        /\ csrfToken = "abc123"
        /\ rq.headers["X-CSRF-Token"] = "abc123"

\* C7: the POST of login() goes to the login path with the token of the login
\* page's meta tag as its CSRF header, and login() does not throw on a
\* received answer to the POST whose body lacks the failure phrase
C7_LoginHandshake ==
    /\ \A rq \in inflight :
          pc = "login_post" /\ call.depth = 0 =>
              /\ rq.method = "POST"
              /\ rq.url = baseURL \o "/login"
              /\ lastRes.req.method = "GET"
              /\ CsrfMatch(lastRes.data) # NULL =>
                    rq.headers["X-CSRF-Token"] = CsrfMatch(lastRes.data)
    /\ ThrewOnPostResponse => Includes(lastRes.data, FailurePhrase)

\* C8: on a textual answer to the POST, login() throws if and only if the body
\* contains the failure phrase, and then with the authentication error;
\* whatever the status
C8_FailureIffPhrase ==
    /\ JustLoggedIn => ~Includes(lastRes.data, FailurePhrase)
    /\ ThrewOnPostResponse /\ ParseBody(lastRes.data).type = "string" =>
          /\ Includes(lastRes.data, FailurePhrase)
          /\ frame.error = "Invalid email or password"

C8_Witness ==
    /\ JustLoggedIn
    /\ lastRes.status = 500
    /\ lastRes.req.method = "POST"
    /\ ParseBody(lastRes.data).type = "string"

\* C9: once login() has thrown, the process has exited with code 1 and no
\* request is in flight
C9_LoginFailureIsFailFast ==
    loginThrew => pc = "exited" /\ exitCode = 1 /\ inflight = {}

C9_Witness ==
    /\ loginThrew
    /\ frame.error = "Invalid email or password"
    /\ exitCode = 1

\* C10: login() does not throw on a received login page without CSRF meta tag;
\* it posts the credentials with the session token unset
C10_MissingTokenNotFatal ==
    /\ ~(ThrewOnLoginPage /\ CsrfMatch(lastRes.data) = NULL)
    /\ \A rq \in inflight :
          pc = "login_post" /\ call.depth = 0 /\ CsrfMatch(lastRes.data) = NULL =>
              /\ csrfToken = NULL
              /\ rq.method = "POST"
              /\ rq.body = URLSearchParams(Email(argv.env), Password(argv.env))

\* C11: when login() has thrown on a host that did not resolve, the reported
\* error is the configuration error: it names the base URL, the command-line
\* form and the variables COOLIFY_URL and COOLIFY_HOST; when it has thrown on
\* anything else, the reported error is the error as it was raised
C11_ResolutionFailureIsConfigurationError ==
    /\ loginThrew /\ lastRes.error = "ENOTFOUND" =>
          /\ Includes(frame.error, "Could not resolve Coolify server: " \o baseURL)
          /\ Includes(frame.error, "coolify-logs https://")
          /\ Includes(frame.error, "COOLIFY_URL=")
          /\ Includes(frame.error, "COOLIFY_HOST=")
    /\ loginThrew /\ lastRes.error # "ENOTFOUND" =>
          frame.error = IF lastRes.error # NULL THEN lastRes.error
                        ELSE IF ParseBody(lastRes.data).type # "string" THEN "TypeError"
                        ELSE "Invalid email or password"

C11_Witness ==
    /\ loginThrew
    /\ lastRes.error = "ENOTFOUND"
    /\ lastRes.req.method = "POST"
    /\ Includes(frame.error, "COOLIFY_HOST=")

\* the command has thrown a TypeError: a string method was called on a body
\* that is no string
ThrewTypeError == pc = "exited" /\ frame.error = "TypeError"

\* C12: a settled request() carries the parsed value when the payload is JSON
\* and the text otherwise, and no caller throws a type error on either shape
C12_CallersHandleBothShapes ==
    /\ result.kind = "resolved" => result.body = ParseBody(lastRes.data)
    /\ ~ThrewTypeError

\* the capture of the first match of /prefix([a-z0-9]+)/ in the text, NULL when
\* the pattern does not occur
FirstId(text, prefix) ==
    LET hits == {k \in 1..Len(text) :
                    HasAt(text, prefix, k) /\ AlnumRun(text, k + Len(prefix)) > 0}
    IN  IF hits = {} THEN NULL
        ELSE LET k == CHOOSE h \in hits : \A m \in hits : h <= m
             IN  SubSeq(text, k + Len(prefix), k + Len(prefix) + AlnumRun(text, k + Len(prefix)) - 1)

\* the text of the page received last, as the scans of discovery read it
LastPage == BodyText(ParseBody(lastRes.data))

\* a function has just issued the request in flight, on the page received last
JustRequested(at) == pc = at /\ call.depth = 0 /\ inflight # {} /\ lastRes.error = NULL

\* the URLs of the dashboard page and of its fallback
DashboardUrls == {baseURL \o "/dashboard", baseURL \o "/"}

\* C13: discovery goes on to a project page only when the dashboard page has a
\* project path, and fails on a dashboard page without one; the project is the
\* first project path of the dashboard page, the environment and the
\* application are the first environment path and the first application path
\* of the project page
C13_FirstOccurrenceAtEachLevel ==
    /\ JustRequested("discover_project") =>
          /\ FirstId(LastPage, "/project/") # NULL
          /\ projectId = FirstId(LastPage, "/project/")
    /\ JustRequested("deployments") /\ frame.discovered = "true" =>
          /\ environmentId = FirstId(LastPage, "/environment/")
          /\ applicationId = FirstId(LastPage, "/application/")
    /\ pc = "done" /\ argv.command = "logs" /\ origCall.req.url \in DashboardUrls =>
          /\ frame.discovered = "false"
          /\ projectId = NULL

C13_Witness ==
    /\ JustRequested("deployments")
    /\ frame.discovered = "true"
    /\ lastRes.data = PageEnvs
    /\ projectId = "p1"
    /\ environmentId = "e1"
    /\ applicationId = "a2"

\* C14: when discoverResources has returned failure the command has ended
\* without a further request: the page requested last is the page of the
\* level that failed, and no complete triple is held
C14_FailureStopsDiscovery ==
    frame.discovered = "false" =>
        /\ pc = "done" /\ exitCode = 0 /\ inflight = {}
        /\ applicationId = NULL
        /\ IF projectId = NULL THEN origCall.req.url \in DashboardUrls
                                ELSE origCall.req.url = ProjectUrl(projectId)

C14_Witness ==
    /\ frame.discovered = "false"
    /\ projectId = "p1"
    /\ environmentId = NULL
    /\ lastRes.data = PageDash
    /\ origCall.req.url = ProjectUrl("p1")

\* C15: in a discovered triple the environment occurs on the page of the
\* project as an environment of that project, and the application occurs
\* there as an application of the discovered environment
C15_ApplicationWithinEnvironment ==
    JustRequested("deployments") /\ frame.discovered = "true" =>
        /\ Includes(LastPage, "/environment/" \o environmentId)
        /\ Includes(LastPage, "/environment/" \o environmentId
                                \o "/application/" \o applicationId)

\* C16: a session identifier that holds a value keeps it in every step
C16_IdentifiersImmutable ==
    [][/\ projectId # NULL => projectId' = projectId
       /\ environmentId # NULL => environmentId' = environmentId
       /\ applicationId # NULL => applicationId' = applicationId]_vars

C16_Witness ==
    /\ pc = "logs"
    /\ result.kind = "resolved"
    /\ frame.discovered = "true"
    /\ projectId = "p1" /\ environmentId = "e1" /\ applicationId = "a1"

\* the strategies in the order in which the claims rank them
StrategyOrder == <<"wire", "status", "pre", "code", "keyword">>

\* what one strategy finds on a page, taken by itself
Yield(name, text) ==
    IF name = "wire" THEN WireStrategy(text)
    ELSE IF name = "status" THEN StatusStrategy(text)
    ELSE IF name = "pre" THEN PreStrategy(text)
    ELSE IF name = "code" THEN CodeStrategy(text)
    ELSE KeywordStrategy(text)

\* the first strategy from place i of the order on that finds content, "none"
\* when none does
FirstFrom(i, text) ==
    LET finds == {j \in i..Len(StrategyOrder) : Yield(StrategyOrder[j], text).found}
    IN  IF finds = {} THEN "none" ELSE StrategyOrder[Least(finds)]

\* getDeploymentLogs has returned; the page it worked on is lastRes.data
LogsReturned == pc = "done" /\ frame.strategy # NULL

\* C17: the logs returned are the normalised content of the first strategy, in
\* the order snapshot, status markup, pre block, code block, keyword lines,
\* that finds content on the page; a strategy later in the order never
\* replaces it
C17_FirstStrategyInOrderWins ==
    LogsReturned =>
        /\ frame.strategy = FirstFrom(1, lastRes.data)
        /\ frame.strategy # "none" =>
              frame.logs = Normalize(Yield(frame.strategy, lastRes.data).content)
        /\ frame.strategy = "none" => frame.logs = NULL

C17_Witness ==
    /\ LogsReturned
    /\ frame.strategy = "status"
    /\ PreStrategy(lastRes.data).found
    /\ CodeStrategy(lastRes.data).found
    /\ KeywordStrategy(lastRes.data).found
    /\ frame.logs = "Error: boom & bust"

\* the page has a snapshot attribute that JSON.parse rejects, or whose value
\* is null
SnapshotBroken(text) ==
    /\ WireMatch(text) # NULL
    /\ \/ ~JsonParse(DecodeSnapshot(WireMatch(text))).ok
       \/ JsonParse(DecodeSnapshot(WireMatch(text))).val.t = "null"

\* C18: on a page of text whose snapshot attribute does not parse, or parses
\* to a value without fields, getDeploymentLogs returns without an error, and
\* what it returns comes from the first of the other four strategies that
\* finds content
C18_ParseErrorSkipsOneStrategy ==
    pc # "logs" /\ CanMatch(ParseBody(lastRes.data)) /\ SnapshotBroken(lastRes.data) =>
        /\ pc = "done" /\ exitCode = 0 /\ frame.error = NULL
        /\ frame.strategy = FirstFrom(2, lastRes.data)

C18_Witness ==
    /\ LogsReturned
    /\ WireMatch(lastRes.data) = "{&quot;data&quot;:{&quot;output&quot;:"
    /\ frame.strategy = "code"
    /\ frame.logs = "x = 1"

\* C19: on a page on which no strategy finds content, getDeploymentLogs
\* returns null and raises nothing
C19_NoMatchReturnsNull ==
    pc # "logs" /\ FirstFrom(1, lastRes.data) = "none" =>
        /\ pc = "done" /\ exitCode = 0 /\ frame.error = NULL
        /\ frame.logs = NULL

\* C20: on a page on which the pre block is the only strategy that finds
\* content, getDeploymentLogs returns the text of the block with the entities
\* decoded and the tags removed, marked as found by the pre block
C20_PreBlockDecodedAndTagged ==
    LET page == lastRes.data
    IN  /\ pc # "logs"
        /\ PreStrategy(page).found
        /\ \A name \in {"wire", "status", "code", "keyword"} : ~Yield(name, page).found
        => /\ frame.logs = Normalize(PreStrategy(page).content)
           /\ ReturnedStrategy(page) = "pre"

\* the positions of the command at which a function awaits a request
AwaitPoints ==
    {"login_page", "login_post", "discover_dashboard", "discover_root", "discover_project",
     "deployments", "details", "logs", "list_dashboard", "list_root", "list_environment"}

\* C21: at most one request of the session is in flight; while one is in
\* flight the awaited request is pending and the command is at an await
\* point, and a request is issued only in a step that starts with none in
\* flight or that takes the redirected request out of flight
C21_OneExchangeInFlight ==
    /\ [](/\ Cardinality(inflight) <= 1
          /\ inflight # {} => result.kind = "pending" /\ pc \in AwaitPoints)
    /\ [][inflight' # {} /\ inflight' # inflight =>
             \/ inflight = {}
             \/ inflight \cap inflight' = {} /\ call'.depth = call.depth + 1]_vars

C21_Witness ==
    /\ pc = "list_environment"
    /\ frame.queue = <<>>
    /\ call.depth = 1
    /\ \E rq \in inflight : rq.url = baseURL \o "/foo"
    /\ origCall.req.url = EnvironmentUrl("p2", "e2")

\* the response received last is a redirect
RedirectReceived == lastRes.error = NULL /\ IsRedirect(lastRes)

\* C22: a redirect is followed at every depth; the request stays pending and
\* its follow-up, to the target of the Location header, is in flight
C22_NoRedirectLimit ==
    RedirectReceived =>
        /\ result.kind = "pending"
        /\ call.depth >= 1
        /\ \E rq \in inflight : rq.url = RedirectUrl(lastRes.req, lastRes)

C22_Witness ==
    /\ RedirectReceived
    /\ call.depth = MaxRedirects
    /\ pc = "logs"
    /\ \E rq \in inflight : rq.url = "https://sso.test/in"

\* the command is over
Ended == pc \in {"done", "exited"}

\* the command fetches logs (it is not the list command)
LogsCommand == argv.command # "list"

\* C23: the logs command ends with exit code 1 when the credentials are
\* missing, and then no request was issued, when login threw, and when the
\* request awaited last was rejected with a transport error
C23_ErrorsExitWithOne ==
    LogsCommand /\ Ended =>
        /\ Email(argv.env) = NULL \/ Password(argv.env) = NULL =>
               exitCode = 1 /\ origCall.req = NoReq
        /\ loginThrew => exitCode = 1
        /\ result.kind = "rejected" => exitCode = 1

\* C24: when getDeploymentLogs has returned null the command is done with
\* exit code 0 and no error
C24_ExtractionMissExitsZero ==
    Ended /\ frame.strategy # NULL /\ frame.logs = NULL =>
        pc = "done" /\ exitCode = 0 /\ frame.error = NULL

C24_Witness ==
    /\ Ended
    /\ frame.strategy = "none"
    /\ frame.logs = NULL
    /\ lastRes.data = Page404
    /\ lastRes.req.url = DeploymentUrl("p1", "e1", "a1", frame.deploymentId)
    /\ exitCode = 0

\* a request for the deployment list, for a deployment or for its logs
DeploymentRequest(rq) == Includes(rq.url, "/deployment")

\* C25: when discoverResources has returned false the command is done with
\* exit code 0 and no error, and neither the deployment list nor a deployment
\* page has been requested
C25_DiscoveryFailureNonFatal ==
    frame.discovered = "false" =>
        /\ pc = "done" /\ exitCode = 0 /\ frame.error = NULL
        /\ frame.deploymentId = NULL /\ frame.strategy = NULL
        /\ ~DeploymentRequest(origCall.req) /\ ~DeploymentRequest(lastRes.req)

C25_Witness ==
    /\ frame.discovered = "false"
    /\ lastRes.error = NULL
    /\ lastRes.status = 200
    /\ lastRes.data = Page404
    /\ lastRes.req.url = baseURL \o "/"
    /\ projectId = NULL
    /\ exitCode = 0

\* the parts of the command token
CommandParts == Split(argv.command, "/")

\* a request for the dashboard, for the root or for the page of a project
DiscoveryRequest(rq) ==
    \/ rq.url \in DashboardUrls
    \/ /\ StartsWith(rq.url, baseURL \o "/project/")
       /\ ~Includes(rq.url, "/environment/")

\* C27: with a triple on the command line discovery is never run and no
\* dashboard or project page is ever requested; the first request after login
\* is the one for the deployment list of the triple, and from then on the
\* identifiers of the session are the parts of the triple
C27_TripleSkipsDiscovery ==
    IsTriple(argv.command) =>
        /\ pc \notin {"discover_dashboard", "discover_root", "discover_project"}
        /\ frame.discovered = NULL
        /\ ~DiscoveryRequest(origCall.req)
        /\ JustLoggedIn =>
              /\ lastRes.req.method = "POST"
              /\ origCall.req.url =
                     DeploymentsUrl(CommandParts[1], CommandParts[2], CommandParts[3])
        /\ IF pc \in {"start", "login_page", "login_post"} \/ loginThrew
              \/ (pc = "exited" /\ origCall.req = NoReq)
           THEN ids = <<NULL, NULL, NULL>>
           ELSE ids = CommandParts

C27_Witness ==
    /\ argv.command = "p1/e1/a1"
    /\ JustLoggedIn
    /\ ids = <<"p1", "e1", "a1">>
    /\ \E rq \in inflight : rq.url = baseURL \o "/project/p1/environment/e1/application/a1/deployment"

\* a response arrives for the request in flight
ResponseStep ==
    /\ inflight # {}
    /\ inflight' # inflight \/ call' # call
    /\ lastRes'.error = NULL

\* C28: a response with the Set-Cookie headers of the response before it
\* leaves the stored cookies as they are, and the follow-up of a redirect
\* carries the Cookie header of the request before it
C28_CookiesIdempotent ==
    [][ResponseStep /\ lastRes.error = NULL /\ lastRes.status # 0
        /\ lastRes'.setCookie = lastRes.setCookie
        => /\ cookies' = cookies
           /\ cookies # "" /\ IsRedirect(lastRes') =>
                 \A rq \in inflight' : /\ "Cookie" \in DOMAIN rq.headers
                                       /\ rq.headers["Cookie"] = cookies]_vars

C28_Witness ==
    /\ pc = "login_page"
    /\ call.depth = 2
    /\ lastRes.setCookie = <<"xsrf=9; Path=/", "sid=2; Path=/; HttpOnly">>
    /\ "Cookie" \in DOMAIN lastRes.req.headers
    /\ lastRes.req.headers["Cookie"] = "xsrf=9; sid=2"
    /\ cookies = "xsrf=9; sid=2"
    /\ \E rq \in inflight : rq.headers = lastRes.req.headers

\* C26: after the constructor the base URL starts with http:// or https://
\* and does not end with a slash
C26_BaseURLNormalized ==
    pc # "construct" =>
        /\ StartsWith(baseURL, "http://") \/ StartsWith(baseURL, "https://")
        /\ ~EndsWith(baseURL, "/")

\* the entities the normalisation decodes
Entities == {"&lt;", "&gt;", "&amp;", "&quot;", "&#039;", "&nbsp;"}

\* no entity occurs in the text
Decoded(text) == \A e \in Entities : ~Includes(text, e)

\* no tag occurs in the text: no '<' that is followed by a character other
\* than '>' and, further on, by a '>'
TagFree(text) ==
    \A i \in 1..Len(text) :
        Ch(text, i) = "<" /\ Ch(text, i + 1) # ">" =>
            \A j \in (i + 2)..Len(text) : Ch(text, j) # ">"

\* C29: on a text without entities and without tags, the normalisation
\* applied to its own result changes nothing
C29_NormalizeIdempotent ==
    [][pc = "normalized" /\ Decoded(frame.content) /\ TagFree(frame.content)
       => frame'.logs = frame.logs]_vars

C29_Witness ==
    /\ pc = "renormalized"
    /\ frame.content = "\\\\n>"
    /\ Decoded(frame.content) /\ TagFree(frame.content)
    /\ frame.logs = "\\\n>"

\* C30: the value getDeploymentLogs returns is the whole normalised text,
\* whatever its length; what is printed is its first DisplayLimit characters,
\* followed by the marker exactly when the text is longer
C30_TruncationDisplayOnly ==
    LogsReturned /\ frame.strategy # "none" =>
        /\ frame.logs = Normalize(Yield(frame.strategy, lastRes.data).content)
        /\ frame.printed[1] =
               SubSeq(frame.logs, 1, IF Len(frame.logs) > DisplayLimit
                                     THEN DisplayLimit ELSE Len(frame.logs))
        /\ IF Len(frame.logs) > DisplayLimit
           THEN Len(frame.printed) = 2 /\ frame.printed[2] = TruncationMarker
           ELSE Len(frame.printed) = 1

C30_Witness ==
    /\ LogsReturned
    /\ Len(frame.logs) = DisplayLimit + 10
    /\ Len(frame.printed[1]) = DisplayLimit
    /\ frame.printed[2] = TruncationMarker

\* the text occurs in the page at the start of a line
AtLineStart(page, text) ==
    \E k \in 1..Len(page) : HasAt(page, text, k) /\ (k = 1 \/ Ch(page, k - 1) = "\n")

\* C31: every line the keyword strategy collects starts, in the page, at the
\* start of a line
C31_KeywordLinesStartLines ==
    LogsReturned /\ frame.strategy = "keyword" =>
        LET matches == KeywordMatches(lastRes.data, ToLower(lastRes.data), 1)
        IN  \A i \in 1..Len(matches) : AtLineStart(lastRes.data, matches[i])

\* the field data of the decoded state of the page's snapshot
SnapshotState(page) == Prop(JsonParse(DecodeSnapshot(WireMatch(page))).val, "data")

\* the page has a snapshot whose decoded state has an object as data
HasSnapshotState(page) ==
    /\ WireMatch(page) # NULL
    /\ JsonParse(DecodeSnapshot(WireMatch(page))).ok
    /\ SnapshotState(page).t = "object"

KnownFields == <<"output", "logs", "deployment_logs">>

\* the known fields that are members of the state
PresentFields(d) == {i \in 1..Len(KnownFields) : \E j \in 1..Len(d.keys) : d.keys[j] = KnownFields[i]}

\* the known fields whose value is truthy
TruthyFields(d) == {i \in 1..Len(KnownFields) : Truthy(Prop(d, KnownFields[i]))}

\* the members of the state, in object order, whose value is a string longer
\* than the minimum
LongFields(d) ==
    {j \in 1..Len(d.keys) : d.vals[j].t = "string" /\ Len(d.vals[j].s) > SnapshotFieldMinLength}

\* what getDeploymentLogs has returned when the snapshot strategy takes the
\* first of the known fields in the set chosen, or else the first long field:
\* the normalised value of the field, and the result of the rest of the
\* cascade when there is no such field
SnapshotTakes(page, d, chosen) ==
    IF chosen # {}
    THEN /\ frame.strategy = "wire"
         /\ frame.logs = Returned(Selected("wire", Found(Prop(d, KnownFields[Least(chosen)]))))
    ELSE IF LongFields(d) # {}
    THEN /\ frame.strategy = "wire"
         /\ frame.logs = Normalize(d.vals[Least(LongFields(d))])
    ELSE frame.strategy = FirstFrom(2, page)

\* C32: the first of output, logs, deployment_logs that is present in the
\* state wins; only when none is present the first long string field is
\* taken; with no such field the cascade continues
C32_FirstPresentFieldWins ==
    LogsReturned /\ HasSnapshotState(lastRes.data) =>
        SnapshotTakes(lastRes.data, SnapshotState(lastRes.data),
                      PresentFields(SnapshotState(lastRes.data)))

\* C32, amended: the first of output, logs, deployment_logs whose value is
\* truthy wins; only when none of the three has a truthy value the first long
\* string field is taken; with no such field the cascade continues
C32_FirstTruthyFieldWins ==
    LogsReturned /\ HasSnapshotState(lastRes.data) =>
        SnapshotTakes(lastRes.data, SnapshotState(lastRes.data),
                      TruthyFields(SnapshotState(lastRes.data)))

C32_Witness ==
    /\ LogsReturned
    /\ HasSnapshotState(lastRes.data)
    /\ SnapshotState(lastRes.data).keys = <<"logs", "output">>
    /\ PreStrategy(lastRes.data).found
    /\ frame.strategy = "wire"
    /\ frame.logs = "from output"

\* C33: the text getDeploymentLogs returns has no substring of the form of a
\* tag, whichever strategy found the content
C33_ReturnedTextHasNoTag ==
    LogsReturned /\ frame.logs # NULL => TagFree(frame.logs)

C33_Witness ==
    /\ LogsReturned
    /\ frame.strategy = "pre"
    /\ ~TagFree(Yield("pre", lastRes.data).content.s)
    /\ frame.logs = "a  b\nc"

\* the redirect received last points to an absolute URL outside the base URL
RedirectedAway ==
    /\ RedirectReceived
    /\ IsAbsoluteLocation(lastRes.location)
    /\ ~StartsWith(lastRes.location, baseURL)

\* the header is sent with that value
Sends(rq, header, value) == header \in DOMAIN rq.headers /\ rq.headers[header] = value

\* C34: the follow-up of a redirect to another host goes to that host with
\* the Cookie header of the session, its CSRF token header and the method and
\* body of the original request
C34_CredentialsFollowRedirect ==
    RedirectedAway =>
        \A rq \in inflight :
            /\ rq.url = lastRes.location
            /\ cookies # "" => Sends(rq, "Cookie", cookies)
            /\ csrfToken # NULL => Sends(rq, "X-CSRF-Token", csrfToken)
            /\ rq.method = origCall.req.method
            /\ rq.body = origCall.req.body

C34_Witness ==
    /\ RedirectedAway
    /\ pc = "login_post"
    /\ \E rq \in inflight :
          /\ rq.url = "https://sso.test/in"
          /\ rq.method = "POST"
          /\ rq.body = "email=u%40x.io&password=pw+1"
          /\ Sends(rq, "Cookie", "sid=1")
          /\ Sends(rq, "X-CSRF-Token", "abc123")

\* the name=value parts of Set-Cookie headers, in header order, joined by "; "
RECURSIVE NameValues(_)
NameValues(headers) ==
    IF headers = <<>> THEN ""
    ELSE IF Len(headers) = 1 THEN SplitHead(headers[1], ";")
    ELSE SplitHead(headers[1], ";") \o "; " \o NameValues(Tail(headers))

\* C35: the stored cookie string changes only in a step in which a response
\* with Set-Cookie arrives; a response without Set-Cookie leaves it as it is,
\* and a response with Set-Cookie makes it the name=value parts of the
\* Set-Cookie headers of that response, in header order
C35_CookiesChangeOnSetCookieOnly ==
    [][/\ cookies' # cookies => ResponseStep /\ lastRes'.setCookie # <<>>
       /\ ResponseStep /\ lastRes'.setCookie = <<>> => cookies' = cookies
       /\ ResponseStep /\ lastRes'.setCookie # <<>> =>
              cookies' = NameValues(lastRes'.setCookie)]_vars

C35_Witness ==
    /\ lastRes.error = NULL
    /\ lastRes.setCookie = <<"sid=1; Path=/; HttpOnly">>
    /\ Sends(lastRes.req, "Cookie", "xsrf=9; sid=2")
    /\ cookies = "sid=1"

\* C36: the CSRF token of the session changes only in the step of login that
\* follows the login page; that step makes it the token of the login page,
\* unset when the page has none, and when login throws on the page the token
\* is unset
C36_TokenWrittenByLoginOnly ==
    [][/\ csrfToken' # csrfToken => pc = "login_page" /\ pc' = "login_post"
       /\ pc = "login_page" /\ pc' = "login_post" => csrfToken' = CsrfMatch(lastRes.data)
       /\ pc = "login_page" /\ pc' = "exited" => csrfToken' = NULL]_vars

C36_Witness ==
    /\ pc = "deployments"
    /\ inflight = {}
    /\ csrfToken = NULL
    /\ lastRes.data = PageLogin
    /\ result.kind = "resolved"

\* C37: when discoverResources has returned failure the identifiers of the
\* session are as they were before it started, all unset
C37_FailedDiscoveryLeavesNoIdentifier ==
    frame.discovered = "false" => ids = <<NULL, NULL, NULL>>

\* C38: an escaped angle-bracket sequence of the winning content, &lt;none&gt;,
\* is in the text returned as the characters <none>: the removal of tags does
\* not take it away
C38_EscapedBracketsSurvive ==
    LogsReturned /\ frame.logs # NULL /\ frame.strategy # "wire"
    /\ Includes(Yield(frame.strategy, lastRes.data).content.s, "&lt;none&gt;")
    => Includes(frame.logs, "<none>")

\* the page getDeploymentsList scanned, while the request that follows it has
\* not been answered
ListedPage == lastRes.data

\* the place of the first deployment path with the id on the page, 0 when the
\* page has none
FirstPath(page, id) == IndexFrom(page, "/deployment/" \o id, 1)

\* C39: getDeploymentsList returns every deployment id that occurs in a
\* deployment path of the page, each once, in the order of the first
\* occurrences, and the workflow goes on with the first of them
C39_EveryIdInOrderOfOccurrence ==
    LET list == DeploymentIds(ListedPage)
    IN  pc \in {"details", "done"} =>
            /\ \A id \in {IdA, IdB} :
                  FirstPath(ListedPage, id) > 0 <=> \E i \in 1..Len(list) : list[i] = id
            /\ \A i, j \in 1..Len(list) :
                  i < j => FirstPath(ListedPage, list[i]) < FirstPath(ListedPage, list[j])
            /\ pc = "details" => frame.deploymentId = list[1]

\* C40: getDeploymentLogs returns null exactly when no strategy found content
\* on the page, and what it returns when one did is a string that is not empty
C40_NullIffNoStrategyMatched ==
    LET page == lastRes.data
    IN  pc # "logs" /\ CanMatch(result.body) =>
            /\ frame.logs = NULL <=> FirstFrom(1, page) = "none"
            /\ FirstFrom(1, page) # "none" => frame.logs # NULL /\ frame.logs # ""

====
